---- MODULE Spec2Model ----
(***************************************************************************)
(* A model of the agent loop of discord-agent (src/agent.py): the bounded  *)
(* per-channel conversation memory, the two tool dispatchers with the      *)
(* tools they call, the content store, and the three entry points of the   *)
(* loop.  Text is modelled by TLA+ strings, so lengths, prefixes and       *)
(* concatenations are the ones the code computes.                          *)
(***************************************************************************)
EXTENDS Integers, Sequences, FiniteSets, TLC

VARIABLES
    channel_memories,  \* agent.channel_memories: channel id -> ChannelMemory
    kv_store,          \* tools.kv_store._store: sha key -> content
    files,             \* the file system seen by read_file / write_file
    pc,                \* "idle", or "running" while an invocation is in its loop
    entry,             \* the entry point of the current (or last) invocation
    channel,           \* its channel_id
    prior,             \* the channel's messages when the entry point was called
    iteration,         \* the loop variable of the for loop
    result,            \* the AgentResult the last invocation returned
    oracle_calls,      \* number of b.AgentStep calls made by the invocation
    snapshot,          \* the messages passed to the latest b.AgentStep call
    last_step,         \* what the latest step of the invocation did
    capabilities,      \* the tool functions the invocation has called, in order
    history,           \* the steps of the invocation so far, in order
    invocations,       \* number of entry-point calls made so far
    total_steps,       \* number of b.AgentStep calls made so far, all invocations
    mem,               \* a ChannelMemory driven directly (memory specification)
    appended,          \* every message appended to mem, in order
    batch,             \* the tool_calls given to a dispatcher (dispatch specification)
    dispatched,        \* what the dispatcher returned and called for batch
    store_op,          \* the latest call of a content-store function (store specification)
    emitted,           \* the keys maybe_store_large_content gave out since clear_store
    tasks,             \* the bot's handler tasks, in order of arrival (bot specification)
    views,             \* the button views the bot has sent
    sent,              \* the messages the bot has sent to channels
    events,            \* number of gateway events delivered to the bot
    heap,              \* Python list objects by identity (snapshot specification)
    live,              \* the list object that memory.messages refers to
    taken,             \* the lists get_messages() has returned
    script,            \* the oracle's decisions for one run (equivalence specification)
    outcomes,          \* what the two loops left for that script
    cli                \* the interactive session of query_agent.py (CLI specification)

vars == <<channel_memories, kv_store, files, pc, entry, channel, prior, iteration,
          result, oracle_calls, snapshot, last_step, capabilities, history,
          invocations, total_steps, mem, appended, batch, dispatched, store_op,
          emitted, tasks, views, sent, events, heap, live, taken, script, outcomes, cli>>

loopVars == <<channel_memories, kv_store, files, pc, entry, channel, prior,
              iteration, result, oracle_calls, snapshot, last_step, capabilities,
              history, invocations, total_steps>>

memVars == <<mem, appended>>

dispatchVars == <<batch, dispatched>>

storeVars == <<store_op, emitted>>

botVars == <<tasks, views, sent, events>>

aliasVars == <<heap, live, taken>>

equivVars == <<script, outcomes>>

cliVars == <<cli>>

extraVars == <<botVars, aliasVars, equivVars, cliVars>>

(***************************************************************************)
(* Python values                                                           *)
(***************************************************************************)

\* Optional fields: None, or a value that is set.
None == <<>>

Some(v) == <<v>>

\* s[:n] for n >= 0
PyPrefix(s, n) == IF Len(s) <= n THEN s ELSE SubSeq(s, 1, n)

\* s.startswith(p)
StartsWith(s, p) == Len(s) >= Len(p) /\ SubSeq(s, 1, Len(p)) = p

\* s[-k:] for k >= 0.  Python reads -0 as 0, so s[-0:] is all of s.
PyLastSlice(s, k) ==
    IF k = 0 \/ k >= Len(s) THEN s ELSE SubSeq(s, Len(s) - k + 1, Len(s))

(***************************************************************************)
(* Constants of agent.py                                                   *)
(***************************************************************************)

MAX_ITERATIONS == 5

MAX_CONTENT_LENGTH == 4000

MAX_CONTEXT_LENGTH == 2000

DEFAULT_MAX_MESSAGES == 20

(***************************************************************************)
(* ChannelMemory                                                           *)
(***************************************************************************)

Message(role, content) == [role |-> role, content |-> content]

ChannelMemory(max_messages) == [messages |-> <<>>, max_messages |-> max_messages]

\* _trim with the bug of keeping the oldest messages, messages[:max_messages].
_trimKeepsOldest(m) ==
    [m EXCEPT !.messages = PyPrefix(@, m.max_messages)]

_trim(m) ==
    IF Len(m.messages) > m.max_messages
    THEN [m EXCEPT !.messages = PyLastSlice(m.messages, m.max_messages)]
    ELSE m

add_message(m, role, content) ==
    _trim([m EXCEPT !.messages = Append(m.messages, Message(role, content))])

add_user_message(m, content) == add_message(m, "user", content)

add_assistant_message(m, content) == add_message(m, "assistant", content)

add_tool_result(m, content) == add_message(m, "tool", content)

add_error(m, content) == add_message(m, "error", content)

get_messages(m) == m.messages

clear(m) == [m EXCEPT !.messages = <<>>]

\* for x in xs: memory.add_<role>(x)
RECURSIVE add_all(_, _, _)
add_all(m, role, xs) ==
    IF xs = <<>> THEN m
    ELSE add_all(add_message(m, role, Head(xs)), role, Tail(xs))

(***************************************************************************)
(* Text helpers                                                            *)
(***************************************************************************)

\* sub in s
Contains(s, sub) ==
    \E i \in 1..(Len(s) - Len(sub) + 1) : SubSeq(s, i, i + Len(sub) - 1) = sub

\* c repeated n times
RECURSIVE Repeat(_, _)
Repeat(c, n) ==
    IF n = 0 THEN ""
    ELSE IF n % 2 = 1 THEN c \o Repeat(c, n - 1)
    ELSE LET half == Repeat(c, n \div 2) IN half \o half

\* "\n".join(xs)
RECURSIVE JoinLines(_)
JoinLines(xs) ==
    IF xs = <<>> THEN ""
    ELSE IF Len(xs) = 1 THEN Head(xs)
    ELSE LET half == Len(xs) \div 2 IN
         JoinLines(SubSeq(xs, 1, half)) \o "\n"
             \o JoinLines(SubSeq(xs, half + 1, Len(xs)))

(***************************************************************************)
(* The world the tools act on.  What a URL serves is fixed per URL; the    *)
(* state of the search and model services is an input of each dispatch.    *)
(***************************************************************************)

PageLength == 6000

BigPage == Repeat("x", PageLength)

\* What session.get(url) yields: an exception, or a response.  For text/html
\* the text field is the text BeautifulSoup extracts from the page.
HttpGet(url) ==
    CASE url = "http://example.com" ->
           [exc |-> "none", status |-> 200,
            content_type |-> "text/html; charset=UTF-8", text |-> "Example Domain"]
      [] url = "http://example.com/api" ->
           [exc |-> "none", status |-> 200,
            content_type |-> "application/json", text |-> "{\"ok\": true}"]
      [] url = "http://example.com/errors.txt" ->
           [exc |-> "none", status |-> 200,
            content_type |-> "text/plain", text |-> "Error codes of the API"]
      [] url = "http://example.com/big.txt" ->
           [exc |-> "none", status |-> 200,
            content_type |-> "text/plain", text |-> BigPage]
      [] url = "http://example.com/logo.png" ->
           [exc |-> "none", status |-> 200,
            content_type |-> "image/png", text |-> ""]
      [] url = "http://example.com/missing" ->
           [exc |-> "none", status |-> 404,
            content_type |-> "text/html", text |-> "Not Found"]
      [] url = "http://example.com/slow" ->
           [exc |-> "TimeoutError", status |-> 0, content_type |-> "", text |-> ""]
      [] OTHER ->
           [exc |-> "ClientError", status |-> 0, content_type |-> "",
            text |-> "Cannot connect to host"]

Urls == {"http://example.com", "http://example.com/api",
         "http://example.com/errors.txt", "http://example.com/big.txt",
         "http://example.com/logo.png", "http://example.com/missing",
         "http://example.com/slow", "http://nowhere.invalid"}

\* The services a dispatch finds: the search service and the model server.
Worlds == [tavily : {"results", "empty", "nokey", "exception"},
           ollama : {"up", "many", "http500", "down"}]

ServicesUp == [tavily |-> "results", ollama |-> "up"]

Directories == {"/tmp"}

ReadOnlyPaths == {"/etc/passwd"}

InitialFiles == [p \in {"/etc/passwd"} |-> "root:x:0:0"]

(***************************************************************************)
(* Tools                                                                   *)
(***************************************************************************)

\* ToolResult(success, data, error)
ToolOk(data) == [success |-> TRUE, data |-> data, error |-> "None"]

ToolFail(error) == [success |-> FALSE, data |-> "", error |-> error]

\* The url ended on one of fetch_url's failure paths.
fetch_failed(url) ==
    LET response == HttpGet(url) IN
    \/ response.exc # "none"
    \/ response.status # 200
    \/ ~ \/ Contains(response.content_type, "text/html")
         \/ Contains(response.content_type, "application/json")
         \/ Contains(response.content_type, "text/")

fetch_url(url) ==
    LET response == HttpGet(url) IN
    IF response.exc = "TimeoutError" THEN "Error: Request timed out"
    ELSE IF response.exc = "ClientError" THEN "Error fetching URL: " \o response.text
    ELSE IF response.status # 200
    THEN "Error fetching URL: HTTP " \o ToString(response.status)
    ELSE IF \/ Contains(response.content_type, "text/html")
            \/ Contains(response.content_type, "application/json")
            \/ Contains(response.content_type, "text/")
    THEN IF Len(response.text) > MAX_CONTENT_LENGTH
         THEN PyPrefix(response.text, MAX_CONTENT_LENGTH) \o "\n... (content truncated)"
         ELSE response.text
    ELSE "Unsupported content type: " \o response.content_type

tavily_failed(world) == world.tavily \in {"nokey", "exception"}

tavily_search(query, world) ==
    CASE world.tavily = "nokey" ->
           "Error: TAVILY_API_KEY environment variable not set"
      [] world.tavily = "exception" ->
           "Error performing Tavily search: Connection refused"
      [] world.tavily = "empty" -> "No results found"
      [] OTHER ->
           "1. Result for " \o query \o "\n   URL: http://example.com\n   Example Domain\n"

\* tools/kv_store.py.  The digests are the first 8 hex digits of the SHA-256
\* of the texts the model stores: the texts its tools can produce with more
\* than MAX_CONTEXT_LENGTH characters, and the contents of the store
\* specification.  Two pairs of these texts have the same first 8 digits.
_hash_content(content) ==
    CASE content = PyPrefix(BigPage, MAX_CONTENT_LENGTH) \o "\n... (content truncated)" ->
           "c20cda80"
      [] content = Repeat("y", MAX_CONTEXT_LENGTH + 1) -> "f806cb30"
      [] content = Repeat("x", MAX_CONTEXT_LENGTH + 1) -> "9f2c9dcd"
      [] content = Repeat("x", MAX_CONTEXT_LENGTH) -> "5c0e0ea4"
      [] content = Repeat("x", MAX_CONTEXT_LENGTH + 1) \o "23724" -> "deba827c"
      [] content = Repeat("x", MAX_CONTEXT_LENGTH + 1) \o "48163" -> "deba827c"
      [] content = "note 53529" -> "42f58c3e"
      [] content = "note 75183" -> "42f58c3e"

\* store_content with the bug of a key that depends on what is stored already.
store_contentSalted(content, store) ==
    LET sha_key == _hash_content(content) \o "-" \o ToString(Cardinality(DOMAIN store)) IN
    [k \in DOMAIN store \cup {sha_key} |-> IF k = sha_key THEN content ELSE store[k]]

\* _store[sha_key] = content; the result is the store
store_content(content, store) ==
    LET sha_key == _hash_content(content) IN
    [k \in DOMAIN store \cup {sha_key} |-> IF k = sha_key THEN content ELSE store[k]]

get_content(sha_key, store) ==
    IF sha_key \in DOMAIN store THEN Some(store[sha_key]) ELSE None

\* _store.clear(): the store after it
clear_store(store) == <<>>

get_store_size(store) == Cardinality(DOMAIN store)

get_stored_content(sha_key, store) ==
    LET content == get_content(sha_key, store) IN
    IF content = None THEN ToolFail("No content found for SHA key: " \o sha_key)
    ELSE ToolOk(content[1])

\* The models of a server that has many.
ModelCount == 150

ManyModels == [i \in 1..ModelCount |-> "model-" \o ToString(i) \o ":latest"]

get_ollama_models(world) ==
    CASE world.ollama = "http500" -> ToolFail("HTTP 500")
      [] world.ollama = "down" -> ToolFail("Network error: Cannot connect to host")
      [] world.ollama = "many" -> ToolOk(ManyModels)
      [] OTHER -> ToolOk(<<"qwen3:4b", "mistral:latest">>)

read_file(file_path, fs) ==
    IF file_path \in Directories THEN ToolFail("Path is not a file: " \o file_path)
    ELSE IF file_path \notin DOMAIN fs THEN ToolFail("File not found: " \o file_path)
    ELSE ToolOk(fs[file_path])

\* open(path, 'w').write(content): the file system after the call
write_file_effect(file_path, content, fs) ==
    IF file_path \in Directories \cup ReadOnlyPaths THEN fs
    ELSE [p \in DOMAIN fs \cup {file_path} |->
             IF p = file_path THEN content ELSE fs[p]]

write_file(file_path, content) ==
    IF file_path \in ReadOnlyPaths THEN ToolFail("Permission denied: " \o file_path)
    ELSE IF file_path \in Directories
    THEN ToolFail("Path is a directory, not a file: " \o file_path)
    ELSE ToolOk("Successfully wrote " \o ToString(Len(content))
                \o " characters to " \o file_path)

\* What the shell does with a command: its exit code and output, or a timeout.
Shell(command) ==
    CASE command = "echo hi" -> [timeout |-> FALSE, returncode |-> 0,
                                 stdout |-> "hi\n", stderr |-> ""]
      [] command = "true" -> [timeout |-> FALSE, returncode |-> 0,
                              stdout |-> "", stderr |-> ""]
      [] command = "sleep 60" -> [timeout |-> TRUE, returncode |-> 0,
                                  stdout |-> "", stderr |-> ""]
      [] OTHER -> [timeout |-> FALSE, returncode |-> 127,
                   stdout |-> "", stderr |-> "command not found\n"]

execute_bash(command) ==
    LET p == Shell(command) IN
    IF p.timeout THEN ToolFail("Command timed out after 30 seconds")
    ELSE IF p.returncode = 0
    THEN ToolOk((IF p.stdout # "" THEN p.stdout ELSE "(no output)")
                \o (IF p.stderr # "" THEN "\n[stderr]: " \o p.stderr ELSE ""))
    ELSE ToolFail("Command failed with exit code " \o ToString(p.returncode)
                  \o (IF p.stderr # "" THEN "\n" \o p.stderr ELSE "")
                  \o (IF p.stdout # "" THEN "\n[stdout]: " \o p.stdout ELSE ""))

(***************************************************************************)
(* Tool-call requests: objects told apart by the attributes they have      *)
(***************************************************************************)

FetchUrlTool(url, reason) == [url |-> url, reason |-> reason]

TavilySearchTool(query, reason) == [query |-> query, reason |-> reason]

GetStoredContentTool(sha_key, reason) == [sha_key |-> sha_key, reason |-> reason]

GetOllamaModelsTool(reason) == [reason |-> reason]

ReadFileTool(file_path, reason) == [file_path |-> file_path, reason |-> reason]

WriteFileTool(file_path, content, reason) ==
    [file_path |-> file_path, content |-> content, reason |-> reason]

BashTool(command, reason) == [command |-> command, reason |-> reason]

hasattr(obj, name) == name \in DOMAIN obj

getattr(obj, name, default) == IF name \in DOMAIN obj THEN obj[name] ELSE default

\* The variant a request was built as.
VariantOf(tool_call) ==
    CASE DOMAIN tool_call = {"url", "reason"} -> "FetchUrl"
      [] DOMAIN tool_call = {"query", "reason"} -> "TavilySearch"
      [] "sha_key" \in DOMAIN tool_call -> "GetStoredContent"
      [] DOMAIN tool_call = {"reason"} -> "GetOllamaModels"
      [] DOMAIN tool_call = {"file_path", "reason"} -> "ReadFile"
      [] DOMAIN tool_call = {"file_path", "content", "reason"} -> "WriteFile"
      [] DOMAIN tool_call = {"command", "reason"} -> "Bash"

ActionCapabilities == {"read_file", "write_file", "execute_bash"}

(***************************************************************************)
(* Oversized-content policy and the two dispatchers                        *)
(***************************************************************************)

\* maybe_store_large_content with the bug of a strict comparison, which
\* truncates a content of exactly MAX_CONTEXT_LENGTH characters.
maybe_store_large_contentStrict(content, prefix, store) ==
    IF Len(content) < MAX_CONTEXT_LENGTH
    THEN [text |-> prefix \o content, store |-> store]
    ELSE LET sha_key == _hash_content(content)
             truncated == PyPrefix(content, MAX_CONTEXT_LENGTH - 200)
         IN [text |-> prefix \o truncated
                      \o "\n\n[Content truncated - " \o ToString(Len(content))
                      \o " chars total]\n"
                      \o "[Full content stored: SHA=" \o sha_key \o "]\n"
                      \o "[Use GetStoredContentTool with SHA '" \o sha_key
                      \o "' to access full content]",
             store |-> store_content(content, store)]

\* The text returned, and the content store after the call.
maybe_store_large_content(content, prefix, store) ==
    IF Len(content) <= MAX_CONTEXT_LENGTH
    THEN [text |-> prefix \o content, store |-> store]
    ELSE LET sha_key == _hash_content(content)
             preview_length == MAX_CONTEXT_LENGTH - 200
             truncated == PyPrefix(content, preview_length)
         IN [text |-> prefix \o truncated
                      \o "\n\n[Content truncated - " \o ToString(Len(content))
                      \o " chars total]\n"
                      \o "[Full content stored: SHA=" \o sha_key \o "]\n"
                      \o "[Use GetStoredContentTool with SHA '" \o sha_key
                      \o "' to access full content]",
             store |-> store_content(content, store)]

\* A dispatcher's progress: the two lists it returns, the tool functions it
\* has called (with the index of the request, and whether the tool ended on a
\* failure path), the requests its for loop has gone through, and the content
\* store and file system it leaves.
DispatchStart(store, fs) ==
    [results |-> <<>>, errors |-> <<>>, calls |-> <<>>, index |-> 0,
     requests |-> <<>>, store |-> store, fs |-> fs]

Called(acc, fn, by, failed) ==
    Append(acc.calls, [fn |-> fn, by |-> by, request |-> acc.index + 1,
                       failed |-> failed])

\* One pass of the for loop of execute_tool_calls.
ToolCallStep(acc, tool_call, world) ==
    LET at == [acc EXCEPT !.index = @ + 1, !.requests = Append(@, tool_call)] IN
    IF hasattr(tool_call, "url")
    THEN LET url == tool_call.url
             reason == tool_call.reason
             content == fetch_url(url)
             calls == Called(acc, "fetch_url", "execute_tool_calls", fetch_failed(url))
         IN IF StartsWith(content, "Error")
            THEN [at EXCEPT !.calls = calls,
                            !.errors = Append(@, "Failed to fetch " \o url \o " ("
                                                 \o reason \o "): " \o content)]
            ELSE LET stored == maybe_store_large_content(
                                   content,
                                   "Fetched " \o url \o " (" \o reason \o "):\n",
                                   acc.store)
                 IN [at EXCEPT !.calls = calls,
                               !.results = Append(@, stored.text),
                               !.store = stored.store]
    ELSE IF hasattr(tool_call, "query") /\ hasattr(tool_call, "reason")
    THEN LET query == tool_call.query
             reason == tool_call.reason
             search_results == tavily_search(query, world)
             calls == Called(acc, "tavily_search", "execute_tool_calls",
                             tavily_failed(world))
         IN IF StartsWith(search_results, "Error")
            THEN [at EXCEPT !.calls = calls,
                            !.errors = Append(@, "Tavily search failed for '" \o query
                                                 \o "' (" \o reason \o "): "
                                                 \o search_results)]
            ELSE LET stored == maybe_store_large_content(
                                   search_results,
                                   "Tavily search results for '" \o query \o "' ("
                                   \o reason \o "):\n",
                                   acc.store)
                 IN [at EXCEPT !.calls = calls,
                               !.results = Append(@, stored.text),
                               !.store = stored.store]
    ELSE IF hasattr(tool_call, "sha_key")
    THEN LET sha_key == tool_call.sha_key
             reason == getattr(tool_call, "reason", "Retrieving stored content")
             tool_result == get_stored_content(sha_key, acc.store)
             calls == Called(acc, "get_stored_content", "execute_tool_calls",
                             ~ tool_result.success)
         IN IF tool_result.success
            THEN LET stored == maybe_store_large_content(
                                   tool_result.data,
                                   "Retrieved stored content (" \o reason \o ", SHA="
                                   \o sha_key \o "):\n",
                                   acc.store)
                 IN [at EXCEPT !.calls = calls,
                               !.results = Append(@, stored.text),
                               !.store = stored.store]
            ELSE [at EXCEPT !.calls = calls,
                            !.errors = Append(@, "Tool error (get_stored_content): "
                                                 \o tool_result.error)]
    ELSE IF hasattr(tool_call, "reason") /\ ~ hasattr(tool_call, "url")
    THEN LET reason == tool_call.reason
             tool_result == get_ollama_models(world)
             calls == Called(acc, "get_ollama_models", "execute_tool_calls",
                             ~ tool_result.success)
         IN IF tool_result.success
            THEN LET models_list ==
                         JoinLines([i \in 1..Len(tool_result.data) |->
                                       "- " \o tool_result.data[i]])
                 IN [at EXCEPT !.calls = calls,
                               !.results = Append(@, "Available Ollama models ("
                                   \o reason \o "):\n" \o models_list \o "\n\nTotal: "
                                   \o ToString(Len(tool_result.data)) \o " models")]
            ELSE [at EXCEPT !.calls = calls,
                            !.errors = Append(@, "Tool error (get_ollama_models): "
                                                 \o tool_result.error)]
    ELSE at

\* One pass of the for loop of execute_action_tools.
ActionToolStep(acc, tool_call) ==
    LET at == [acc EXCEPT !.index = @ + 1, !.requests = Append(@, tool_call)] IN
    IF hasattr(tool_call, "file_path") /\ hasattr(tool_call, "content")
    THEN LET file_path == tool_call.file_path
             content == tool_call.content
             reason == tool_call.reason
             tool_result == write_file(file_path, content)
             calls == Called(acc, "write_file", "execute_action_tools",
                             ~ tool_result.success)
             written == [at EXCEPT !.calls = calls,
                                   !.fs = write_file_effect(file_path, content, acc.fs)]
         IN IF tool_result.success
            THEN [written EXCEPT !.results = Append(@, "WriteFile (" \o reason \o "): "
                                                       \o tool_result.data)]
            ELSE [written EXCEPT !.errors = Append(@, "WriteFile failed (" \o reason
                                                      \o "): " \o tool_result.error)]
    ELSE IF hasattr(tool_call, "file_path")
    THEN LET file_path == tool_call.file_path
             reason == tool_call.reason
             tool_result == read_file(file_path, acc.fs)
             calls == Called(acc, "read_file", "execute_action_tools",
                             ~ tool_result.success)
         IN IF tool_result.success
            THEN LET stored == maybe_store_large_content(
                                   tool_result.data,
                                   "ReadFile (" \o reason \o ", path=" \o file_path
                                   \o "):\n",
                                   acc.store)
                 IN [at EXCEPT !.calls = calls,
                               !.results = Append(@, stored.text),
                               !.store = stored.store]
            ELSE [at EXCEPT !.calls = calls,
                            !.errors = Append(@, "ReadFile failed (" \o reason \o "): "
                                                 \o tool_result.error)]
    ELSE IF hasattr(tool_call, "command")
    THEN LET command == tool_call.command
             reason == tool_call.reason
             tool_result == execute_bash(command)
             calls == Called(acc, "execute_bash", "execute_action_tools",
                             ~ tool_result.success)
         IN IF tool_result.success
            THEN LET stored == maybe_store_large_content(
                                   tool_result.data,
                                   "Bash (" \o reason \o ", command='" \o command
                                   \o "'):\n",
                                   acc.store)
                 IN [at EXCEPT !.calls = calls,
                               !.results = Append(@, stored.text),
                               !.store = stored.store]
            ELSE [at EXCEPT !.calls = calls,
                            !.errors = Append(@, "Bash failed (" \o reason \o "): "
                                                 \o tool_result.error)]
    ELSE at

RECURSIVE ToolCallsFrom(_, _, _)
ToolCallsFrom(acc, tool_calls, world) ==
    IF tool_calls = <<>> THEN acc
    ELSE ToolCallsFrom(ToolCallStep(acc, Head(tool_calls), world),
                       Tail(tool_calls), world)

RECURSIVE ActionToolsFrom(_, _)
ActionToolsFrom(acc, tool_calls) ==
    IF tool_calls = <<>> THEN acc
    ELSE ActionToolsFrom(ActionToolStep(acc, Head(tool_calls)), Tail(tool_calls))

execute_tool_calls(tool_calls, world, store, fs) ==
    ToolCallsFrom(DispatchStart(store, fs), tool_calls, world)

execute_action_tools(tool_calls, store, fs) ==
    ActionToolsFrom(DispatchStart(store, fs), tool_calls)

\* for msg in messages: memory.add_<role>(content)
RECURSIVE add_messages(_, _)
add_messages(m, messages) ==
    IF messages = <<>> THEN m
    ELSE add_messages(add_message(m, Head(messages).role, Head(messages).content),
                      Tail(messages))

(***************************************************************************)
(* The oracle's decisions and the loop's result                            *)
(***************************************************************************)

FinalAnswer(response) == [type |-> "FinalAnswer", response |-> response]

AskUser(question, options) ==
    [type |-> "AskUser", question |-> question, options |-> options]

PerformAction(reasoning, tool_calls) ==
    [type |-> "PerformAction", reasoning |-> reasoning, tool_calls |-> tool_calls]

GatherInformation(tool_calls) == [type |-> "GatherInformation", tool_calls |-> tool_calls]

\* AgentResult(response=None, ask_user=None, perform_action=None, error=None)
AgentResult == [response |-> None, ask_user |-> None, perform_action |-> None,
                error |-> None]

BudgetMessage ==
    "I've done extensive research but couldn't formulate a complete answer. Please try rephrasing your question."

InternalBudgetMessage == "Max iterations reached. Please try a different question."

NoToolsMessage == "No tools were called. Please provide a response."

DenialMarker == "[User denied tool execution]"

\* What one pass of the for loop leaves: the memory, the AgentResult it
\* returns (None when the loop goes on), the dispatch it ran, and the content
\* store and file system after it.
Pass(memory, returned, dispatch) ==
    [memory |-> memory, returned |-> returned, results |-> dispatch.results,
     errors |-> dispatch.errors, calls |-> dispatch.calls,
     requests |-> dispatch.requests, store |-> dispatch.store, fs |-> dispatch.fs]


\* OnFinalAnswer with the bug of not recording the answer.
OnFinalAnswerForgets(memory, decision, store, fs) ==
    Pass(memory, Some([AgentResult EXCEPT !.response = Some(decision.response)]),
         DispatchStart(store, fs))

OnFinalAnswer(memory, decision, store, fs) ==
    Pass(add_assistant_message(memory, decision.response),
         Some([AgentResult EXCEPT !.response = Some(decision.response)]),
         DispatchStart(store, fs))


\* OnAskUser with the bug of recording the question at once.
OnAskUserRecords(memory, decision, store, fs) ==
    Pass(add_assistant_message(memory, decision.question),
         Some([AgentResult EXCEPT !.ask_user = Some(decision)]),
         DispatchStart(store, fs))

OnAskUser(memory, decision, store, fs) ==
    Pass(memory, Some([AgentResult EXCEPT !.ask_user = Some(decision)]),
         DispatchStart(store, fs))


\* OnPerformAction with the bug of running the action at once.
OnPerformActionEager(memory, decision, store, fs) ==
    LET done == execute_action_tools(decision.tool_calls, store, fs) IN
    Pass(memory, Some([AgentResult EXCEPT !.perform_action = Some(decision)]), done)

OnPerformAction(memory, decision, store, fs) ==
    Pass(memory, Some([AgentResult EXCEPT !.perform_action = Some(decision)]),
         DispatchStart(store, fs))


\* OnGatherInformation with the bug of dropping the errors of the batch.
OnGatherInformationDropsErrors(memory, decision, world, store, fs) ==
    IF decision.tool_calls # <<>>
    THEN LET done == execute_tool_calls(decision.tool_calls, world, store, fs) IN
         Pass(add_all(memory, "tool", done.results), None, done)
    ELSE Pass(add_tool_result(memory, NoToolsMessage), None, DispatchStart(store, fs))

\* OnGatherInformation with the bug of recording the errors before the
\* successes.
OnGatherInformationErrorsFirst(memory, decision, world, store, fs) ==
    IF decision.tool_calls # <<>>
    THEN LET done == execute_tool_calls(decision.tool_calls, world, store, fs) IN
         Pass(add_all(add_all(memory, "error", done.errors), "tool", done.results),
              None, done)
    ELSE Pass(add_tool_result(memory, NoToolsMessage), None, DispatchStart(store, fs))

\* OnGatherInformation with the bug of recording the newest outcome first.
OnGatherInformationNewestFirst(memory, decision, world, store, fs) ==
    IF decision.tool_calls # <<>>
    THEN LET done == execute_tool_calls(decision.tool_calls, world, store, fs)
             newest_first(xs) == [i \in 1..Len(xs) |-> xs[Len(xs) + 1 - i]]
         IN Pass(add_all(add_all(memory, "tool", newest_first(done.results)),
                         "error", newest_first(done.errors)),
                 None, done)
    ELSE Pass(add_tool_result(memory, NoToolsMessage), None, DispatchStart(store, fs))

\* OnGatherInformation with the bug of recording nothing for an empty batch.
OnGatherInformationSilent(memory, decision, world, store, fs) ==
    IF decision.tool_calls # <<>>
    THEN LET done == execute_tool_calls(decision.tool_calls, world, store, fs) IN
         Pass(add_all(add_all(memory, "tool", done.results), "error", done.errors),
              None, done)
    ELSE Pass(memory, None, DispatchStart(store, fs))

\* OnGatherInformation with the bug of asking for a response after every
\* batch.
OnGatherInformationPrompts(memory, decision, world, store, fs) ==
    IF decision.tool_calls # <<>>
    THEN LET done == execute_tool_calls(decision.tool_calls, world, store, fs) IN
         Pass(add_tool_result(
                  add_all(add_all(memory, "tool", done.results), "error", done.errors),
                  NoToolsMessage),
              None, done)
    ELSE Pass(add_tool_result(memory, NoToolsMessage), None, DispatchStart(store, fs))

OnGatherInformation(memory, decision, world, store, fs) ==
    IF decision.tool_calls # <<>>
    THEN LET done == execute_tool_calls(decision.tool_calls, world, store, fs) IN
         Pass(add_all(add_all(memory, "tool", done.results), "error", done.errors),
              None, done)
    ELSE Pass(add_tool_result(memory, NoToolsMessage), None, DispatchStart(store, fs))

\* OnOracleFault with the bug of logging the fault in the memory.
OnOracleFaultRecorded(memory, message, store, fs) ==
    Pass(add_error(memory, "Agent error: " \o message),
         Some([AgentResult EXCEPT !.error = Some("Agent error: " \o message)]),
         DispatchStart(store, fs))

\* OnOracleFault with the bug of also giving a response.
OnOracleFaultWithResponse(memory, message, store, fs) ==
    Pass(memory,
         Some([AgentResult EXCEPT !.error = Some("Agent error: " \o message),
                                  !.response = Some("")]),
         DispatchStart(store, fs))

\* except Exception as e, for a fault of b.AgentStep
OnOracleFault(memory, message, store, fs) ==
    Pass(memory, Some([AgentResult EXCEPT !.error = Some("Agent error: " \o message)]),
         DispatchStart(store, fs))

\* The statement after the for loop.

\* OnExhausted with the bug of answering with the empty text.
OnExhaustedSilent(entry_point) == [AgentResult EXCEPT !.response = Some("")]

OnExhausted(entry_point) ==
    [AgentResult EXCEPT !.error =
        Some(IF entry_point = "run_agent_loop" THEN BudgetMessage
             ELSE InternalBudgetMessage)]

\* The pre-processing of continue_after_tool_approval.

\* OnToolApproval with the bug of recording the outcomes in the order of the
\* calls, not the successes before the errors.
OnToolApprovalInCallOrder(memory, perform_action, approved, store, fs) ==
    IF approved
    THEN LET done == execute_action_tools(perform_action.tool_calls, store, fs)
             outcome(i) ==
                 LET failures == Cardinality({j \in 1..i : done.calls[j].failed}) IN
                 IF done.calls[i].failed
                 THEN Message("error", done.errors[failures])
                 ELSE Message("tool", done.results[i - failures])
         IN Pass(add_messages(memory, [i \in 1..Len(done.calls) |-> outcome(i)]),
                 None, done)
    ELSE Pass(add_user_message(memory, DenialMarker), None, DispatchStart(store, fs))

\* OnToolApproval with the bug of not looking at the user's answer.
OnToolApprovalUnchecked(memory, perform_action, approved, store, fs) ==
    LET done == execute_action_tools(perform_action.tool_calls, store, fs) IN
    Pass(add_all(add_all(memory, "tool", done.results), "error", done.errors),
         None, done)

OnToolApproval(memory, perform_action, approved, store, fs) ==
    IF approved
    THEN LET done == execute_action_tools(perform_action.tool_calls, store, fs) IN
         Pass(add_all(add_all(memory, "tool", done.results), "error", done.errors),
              None, done)
    ELSE Pass(add_user_message(memory, DenialMarker), None, DispatchStart(store, fs))

\* The pre-processing of continue_after_user_choice.

\* OnUserChoice with the bug of recording the question that was asked too.
OnUserChoiceEchoesQuestion(memory, choice) ==
    add_user_message(add_assistant_message(memory, "Which city?"),
                     "I choose: " \o choice)

OnUserChoice(memory, choice) == add_user_message(memory, "I choose: " \o choice)

\* The body of the for loop: the branch taken on the outcome of b.AgentStep,
\* a decision or a fault.
OnDecision(memory, decision, world, store, fs) ==
    CASE decision.type = "FinalAnswer" -> OnFinalAnswer(memory, decision, store, fs)
      [] decision.type = "AskUser" -> OnAskUser(memory, decision, store, fs)
      [] decision.type = "PerformAction" -> OnPerformAction(memory, decision, store, fs)
      [] decision.type = "GatherInformation" ->
           OnGatherInformation(memory, decision, world, store, fs)
      [] decision.type = "fault" -> OnOracleFault(memory, decision.message, store, fs)

\* What an invocation leaves: the memory, the stores and the AgentResult.
Outcome(entry_point, memory, returned, store, fs) ==
    [entry |-> entry_point, memory |-> memory, result |-> returned, store |-> store,
     fs |-> fs]

\* The for loop of run_agent_loop (entry_point "run_agent_loop") and of
\* run_agent_loop_internal, run from pass `i` against the decisions the
\* oracle gives in turn.  The decisions end with one that returns or are as
\* many as the budget.
RECURSIVE RunLoop(_, _, _, _, _, _, _)
RunLoop(entry_point, memory, decisions, world, store, fs, i) ==
    IF i = MAX_ITERATIONS
    THEN Outcome(entry_point, memory, OnExhausted(entry_point), store, fs)
    ELSE LET pass == OnDecision(memory, Head(decisions), world, store, fs) IN
         IF pass.returned # None
         THEN Outcome(entry_point, pass.memory, pass.returned[1], pass.store, pass.fs)
         ELSE RunLoop(entry_point, pass.memory, Tail(decisions), world, pass.store,
                      pass.fs, i + 1)

\* get_channel_memory with the bug of making a new memory on every call.
get_channel_memoryFresh(registry, channel_id) ==
    [c \in DOMAIN registry \cup {channel_id} |->
        IF c = channel_id THEN ChannelMemory(DEFAULT_MAX_MESSAGES)
        ELSE registry[c]]

\* get_channel_memory: the registry with the channel's memory in it
get_channel_memory(registry, channel_id) ==
    IF channel_id \in DOMAIN registry THEN registry
    ELSE [c \in DOMAIN registry \cup {channel_id} |->
             IF c = channel_id THEN ChannelMemory(DEFAULT_MAX_MESSAGES)
             ELSE registry[c]]

(***************************************************************************)
(* Bounds and inputs of the loop specification                             *)
(***************************************************************************)

\* Entry-point calls per behaviour.
MaxInvocations == 2

\* b.AgentStep calls per behaviour, over all invocations.
MaxTotalSteps == 5

Channels == {1}

UserTexts == {"What is 2+2?"}

Choices == {"Paris"}

Responses == {"4"}

OracleFaults == {"BamlTimeoutError"}

\* What the test harness pre-populates a channel with: n earlier messages.
InitialMessages(n) ==
    [i \in 1..n |-> Message(IF i % 2 = 1 THEN "user" ELSE "assistant",
                            "earlier message " \o ToString(i))]

\* One message short of a full memory.
PriorLengths == {DEFAULT_MAX_MESSAGES - 1}

\* A batch with every kind of outcome: a failed fetch, a search, and the three
\* action variants.
MixedBatch ==
    <<FetchUrlTool("http://example.com/missing", "find the page"),
      TavilySearchTool("capital of France", "search"),
      ReadFileTool("/etc/passwd", "peek"),
      WriteFileTool("/tmp/out.txt", "hello", "save"),
      BashTool("echo hi", "greet")>>

\* One more failing request than the memory holds messages, each with its own
\* reason.
FloodBatch ==
    [i \in 1..(DEFAULT_MAX_MESSAGES + 1) |->
        FetchUrlTool("http://example.com/missing", "attempt " \o ToString(i))]

GatherBatches == {<<>>, MixedBatch, FloodBatch}

\* Failures before and between successes.
ActionBatch ==
    <<WriteFileTool("/etc/passwd", "oops", "overwrite"),
      WriteFileTool("/tmp/out.txt", "hello", "save the answer"),
      ReadFileTool("/tmp/out.txt", "check the file"),
      BashTool("frobnicate", "try it"),
      BashTool("echo hi", "greet")>>

ActionBatches == {ActionBatch}

PerformActions == {PerformAction("needs the file system", b) : b \in ActionBatches}

LoopWorlds == {ServicesUp}

(***************************************************************************)
(* The loop: entry points and passes                                       *)
(***************************************************************************)

Memory == channel_memories[channel]

Step(kind, pass) ==
    [kind |-> kind, results |-> pass.results, errors |-> pass.errors,
     requests |-> pass.requests]

NoStep == [kind |-> "none", results |-> <<>>, errors |-> <<>>, requests |-> <<>>]

\* The tool functions called, marked with the step of the invocation that
\* called them: "entry" for an entry point's pre-processing, else the decision
\* of the pass.
During(kind, calls) ==
    [i \in 1..Len(calls) |->
        [fn |-> calls[i].fn, by |-> calls[i].by, request |-> calls[i].request,
         failed |-> calls[i].failed, during |-> kind]]

\* An entry point starts: its pre-processing has left `pass`.
Enter(entry_point, channel_id, registry, pass) ==
    /\ pc = "idle"
    /\ invocations < MaxInvocations
    /\ invocations' = invocations + 1
    /\ channel_memories' = [registry EXCEPT ![channel_id] = pass.memory]
    /\ kv_store' = pass.store
    /\ files' = pass.fs
    /\ pc' = "running"
    /\ entry' = entry_point
    /\ channel' = channel_id
    /\ prior' = (IF channel_id \in DOMAIN channel_memories
                 THEN get_messages(channel_memories[channel_id]) ELSE <<>>)
    /\ iteration' = 0
    /\ result' = None
    /\ oracle_calls' = 0
    /\ snapshot' = <<>>
    /\ last_step' = Step("entry", pass)
    /\ capabilities' = During("entry", pass.calls)
    /\ history' = <<Step("entry", pass)>>
    /\ UNCHANGED <<total_steps, memVars, dispatchVars, storeVars, extraVars>>

run_agent_loop(channel_id, user_input) ==
    LET registry == get_channel_memory(channel_memories, channel_id)
        memory == add_user_message(registry[channel_id], user_input)
    IN Enter("run_agent_loop", channel_id, registry,
             Pass(memory, None, DispatchStart(kv_store, files)))

continue_after_user_choice(channel_id, choice) ==
    LET registry == get_channel_memory(channel_memories, channel_id)
        memory == OnUserChoice(registry[channel_id], choice)
    IN Enter("continue_after_user_choice", channel_id, registry,
             Pass(memory, None, DispatchStart(kv_store, files)))

continue_after_tool_approval(channel_id, perform_action, approved) ==
    LET registry == get_channel_memory(channel_memories, channel_id)
    IN Enter(IF approved THEN "continue_after_tool_approval(approved)"
             ELSE "continue_after_tool_approval(denied)",
             channel_id, registry,
             OnToolApproval(registry[channel_id], perform_action, approved,
                            kv_store, files))

\* One pass of the for loop: the snapshot is taken, b.AgentStep is called with
\* it, and `pass` is what the branch on its outcome leaves.
LoopPass(kind, pass) ==
    /\ pc = "running"
    /\ iteration < MAX_ITERATIONS
    /\ total_steps < MaxTotalSteps
    /\ total_steps' = total_steps + 1
    /\ oracle_calls' = oracle_calls + 1
    /\ snapshot' = get_messages(Memory)
    /\ channel_memories' = [channel_memories EXCEPT ![channel] = pass.memory]
    /\ kv_store' = pass.store
    /\ files' = pass.fs
    /\ capabilities' = capabilities \o During(kind, pass.calls)
    /\ last_step' = Step(kind, pass)
    /\ history' = Append(history, Step(kind, pass))
    /\ IF pass.returned = None
       THEN /\ iteration' = iteration + 1
            /\ UNCHANGED <<pc, result>>
       ELSE /\ pc' = "idle"
            /\ result' = pass.returned
            /\ UNCHANGED iteration
    /\ UNCHANGED <<entry, channel, prior, invocations, memVars, dispatchVars,
                   storeVars, extraVars>>

StepFinalAnswer(response) ==
    LoopPass("FinalAnswer", OnFinalAnswer(Memory, FinalAnswer(response), kv_store, files))

StepAskUser ==
    LoopPass("AskUser",
             OnAskUser(Memory, AskUser("Which city?", <<"Paris", "London">>),
                       kv_store, files))

StepPerformAction(decision) ==
    LoopPass("PerformAction", OnPerformAction(Memory, decision, kv_store, files))

StepGatherInformation(tool_calls, world) ==
    LoopPass("GatherInformation",
             OnGatherInformation(Memory, GatherInformation(tool_calls), world,
                                 kv_store, files))

StepOracleFault(message) ==
    LoopPass("fault", OnOracleFault(Memory, message, kv_store, files))

\* The for loop ran out: the statement after it returns.
LoopExhausted ==
    /\ pc = "running"
    /\ iteration = MAX_ITERATIONS
    /\ pc' = "idle"
    /\ result' = Some(OnExhausted(entry))
    /\ last_step' = [NoStep EXCEPT !.kind = "exhausted"]
    /\ UNCHANGED <<channel_memories, kv_store, files, entry, channel, prior,
                   iteration, oracle_calls, snapshot, capabilities, history,
                   invocations, total_steps, memVars, dispatchVars, storeVars,
                   extraVars>>

\* test_agent.populate_channel_memory: clear, then add the earlier messages.
populate_channel_memory(channel_id, n) ==
    /\ pc = "idle"
    /\ invocations = 0
    /\ channel_id \notin DOMAIN channel_memories
    /\ LET registry == get_channel_memory(channel_memories, channel_id) IN
       channel_memories' =
           [registry EXCEPT ![channel_id] = add_messages(clear(@), InitialMessages(n))]
    /\ UNCHANGED <<kv_store, files, pc, entry, channel, prior, iteration, result,
                   oracle_calls, snapshot, last_step, capabilities, history,
                   invocations, total_steps, memVars, dispatchVars, storeVars,
                   extraVars>>

(***************************************************************************)
(* Specification of the loop                                               *)
(***************************************************************************)

LoopIdle ==
    /\ channel_memories = <<>>
    /\ kv_store = <<>>
    /\ files = InitialFiles
    /\ pc = "idle"
    /\ entry = "none"
    /\ channel = 0
    /\ prior = <<>>
    /\ iteration = 0
    /\ result = None
    /\ oracle_calls = 0
    /\ snapshot = <<>>
    /\ last_step = NoStep
    /\ capabilities = <<>>
    /\ history = <<>>
    /\ invocations = 0
    /\ total_steps = 0

MemoryIdle == mem = ChannelMemory(DEFAULT_MAX_MESSAGES) /\ appended = <<>>

DispatchIdle == batch = <<>> /\ dispatched = None

StoreIdle == store_op = None /\ emitted = {}

BotIdle == tasks = <<>> /\ views = <<>> /\ sent = <<>> /\ events = 0

AliasIdle == heap = <<>> /\ live = 0 /\ taken = <<>>

EquivIdle == script = <<>> /\ outcomes = None

CliIdle == cli = None

ExtraIdle == BotIdle /\ AliasIdle /\ EquivIdle /\ CliIdle

Init == LoopIdle /\ MemoryIdle /\ DispatchIdle /\ StoreIdle /\ ExtraIdle

Next ==
    \/ \E n \in PriorLengths : populate_channel_memory(1, n)
    \/ \E c \in Channels, text \in UserTexts : run_agent_loop(c, text)
    \/ \E c \in Channels, choice \in Choices : continue_after_user_choice(c, choice)
    \/ \E c \in Channels, action \in PerformActions, approved \in BOOLEAN :
          continue_after_tool_approval(c, action, approved)
    \/ \E response \in Responses : StepFinalAnswer(response)
    \/ StepAskUser
    \/ \E decision \in PerformActions : StepPerformAction(decision)
    \/ \E tool_calls \in GatherBatches, world \in LoopWorlds :
          StepGatherInformation(tool_calls, world)
    \/ \E message \in OracleFaults : StepOracleFault(message)
    \/ LoopExhausted

Spec == Init /\ [][Next]_vars

(***************************************************************************)
(* Specification of the loop gathering pages: run_agent_loop with an       *)
(* oracle that fetches pages and asks for stored content                   *)
(***************************************************************************)

\* A page of PageLength characters.
PageBatch == <<FetchUrlTool("http://example.com/big.txt", "read the page")>>

\* The request the truncation notice of the page asks for.
RetrieveBatch == <<GetStoredContentTool("c20cda80", "read it all")>>

\* Fetches that end on each failure path of fetch_url: a 404, a timeout, a
\* connection error and an image.
FailingBatch ==
    <<FetchUrlTool("http://example.com/missing", "find the page"),
      FetchUrlTool("http://example.com/slow", "wait for it"),
      FetchUrlTool("http://nowhere.invalid", "try the host"),
      FetchUrlTool("http://example.com/logo.png", "look at the logo")>>

\* One page that is there.
LookupBatch == <<FetchUrlTool("http://example.com", "lookup")>>

PageBatches == {PageBatch, RetrieveBatch, FailingBatch, LookupBatch}

PagesNext ==
    \/ \E c \in Channels, text \in UserTexts : run_agent_loop(c, text)
    \/ \E tool_calls \in PageBatches, world \in LoopWorlds :
          StepGatherInformation(tool_calls, world)
    \/ \E response \in Responses : StepFinalAnswer(response)
    \/ LoopExhausted

SpecPages == Init /\ [][PagesNext]_vars

(***************************************************************************)
(* Specification of one ChannelMemory: the add_* methods called on a       *)
(* memory of any capacity                                                  *)
(***************************************************************************)

MaxCapacity == 3

MaxAppends == 5

Roles == {"user", "assistant", "tool", "error"}

MemoryInit ==
    /\ LoopIdle
    /\ DispatchIdle
    /\ StoreIdle
    /\ ExtraIdle
    /\ appended = <<>>
    /\ \E capacity \in 0..MaxCapacity : mem = ChannelMemory(capacity)

\* One of add_user_message, add_assistant_message, add_tool_result, add_error.
MemoryAdd(role) ==
    /\ Len(appended) < MaxAppends
    /\ LET content == "message " \o ToString(Len(appended) + 1) IN
       /\ mem' = (CASE role = "user" -> add_user_message(mem, content)
                    [] role = "assistant" -> add_assistant_message(mem, content)
                    [] role = "tool" -> add_tool_result(mem, content)
                    [] role = "error" -> add_error(mem, content))
       /\ appended' = Append(appended, Message(role, content))
    /\ UNCHANGED <<loopVars, dispatchVars, storeVars, extraVars>>

MemoryNext == \E role \in Roles : MemoryAdd(role)

SpecMemory == MemoryInit /\ [][MemoryNext]_vars

(***************************************************************************)
(* Specification of the dispatchers: each applied to a batch of requests   *)
(***************************************************************************)

MaxBatch == 2

InformationRequests ==
    {FetchUrlTool(url, "lookup") : url \in Urls}
    \cup {TavilySearchTool("capital of France", "search"),
          GetStoredContentTool("c20cda80", "read it all"),
          [sha_key |-> "deadbeef"],
          GetOllamaModelsTool("which models")}

ActionRequests ==
    {ReadFileTool("/etc/passwd", "peek"),
     ReadFileTool("/tmp/out.txt", "check the file"),
     ReadFileTool("/tmp", "list"),
     WriteFileTool("/tmp/out.txt", "hello", "save the answer"),
     WriteFileTool("/etc/passwd", "oops", "overwrite"),
     BashTool("echo hi", "greet"),
     BashTool("frobnicate", "try it"),
     BashTool("sleep 60", "wait")}

Requests == InformationRequests \cup ActionRequests

Batches(requests) == UNION {[1..n -> requests] : n \in 0..MaxBatch}

DispatchInit ==
    /\ LoopIdle
    /\ MemoryIdle
    /\ StoreIdle
    /\ ExtraIdle
    /\ dispatched = None
    /\ batch \in Batches(Requests)

Dispatched(done) ==
    /\ dispatched = None
    /\ dispatched' = Some(done)
    /\ kv_store' = done.store
    /\ files' = done.fs
    /\ UNCHANGED <<channel_memories, pc, entry, channel, prior, iteration, result,
                   oracle_calls, snapshot, last_step, capabilities, history,
                   invocations, total_steps, memVars, batch, storeVars,
                   extraVars>>

\* GatherInformation.tool_calls given to execute_tool_calls.
DispatchToolCalls(world) ==
    Dispatched(execute_tool_calls(batch, world, kv_store, files))

\* PerformAction.tool_calls, which are ReadFile, WriteFile and Bash requests,
\* given to execute_action_tools.
DispatchActionTools ==
    /\ \A i \in 1..Len(batch) : batch[i] \in ActionRequests
    /\ Dispatched(execute_action_tools(batch, kv_store, files))

DispatchNext ==
    \/ \E world \in Worlds : DispatchToolCalls(world)
    \/ DispatchActionTools

SpecDispatch == DispatchInit /\ [][DispatchNext]_vars

(***************************************************************************)
(* Specification of the content store: store_content, get_content,        *)
(* clear_store and maybe_store_large_content called in any order           *)
(***************************************************************************)

\* Contents at the boundary of MAX_CONTEXT_LENGTH, and two pairs of contents
\* whose SHA-256 digests begin with the same 8 hex digits.
StoreContents ==
    {Repeat("x", MAX_CONTEXT_LENGTH),
     Repeat("x", MAX_CONTEXT_LENGTH + 1),
     Repeat("x", MAX_CONTEXT_LENGTH + 1) \o "23724",
     Repeat("x", MAX_CONTEXT_LENGTH + 1) \o "48163",
     "note 53529",
     "note 75183"}

StoreKeys == {_hash_content(c) : c \in StoreContents} \cup {"deadbeef"}

Prefixes == {"", "Fetched http://example.com (lookup):\n"}

\* The key in the notice that ends a truncated text: the 8 characters that
\* follow "SHA=" in its last lines.
EmittedKey(text) ==
    LET marker == "[Full content stored: SHA="
        at == CHOOSE i \in (Len(text) - 120)..Len(text) :
                 SubSeq(text, i, i + Len(marker) - 1) = marker
    IN SubSeq(text, at + Len(marker), at + Len(marker) + 7)

\* Calls of the store's functions per behaviour.
MaxStoreCalls == 4

\* Number of calls made so far.
StoreCalls == IF store_op = None THEN 0 ELSE store_op[1].call

\* The record of a call: the function, its arguments and what it returned.
StoreOp(fn, content, prefix, returned) ==
    Some([call |-> StoreCalls + 1, fn |-> fn, content |-> content, prefix |-> prefix,
          returned |-> returned])

StoreInit == LoopIdle /\ MemoryIdle /\ DispatchIdle /\ StoreIdle /\ ExtraIdle

\* kv_store.store_content(content)
StoreContent(content) ==
    /\ StoreCalls < MaxStoreCalls
    /\ kv_store' = store_content(content, kv_store)
    /\ store_op' = StoreOp("store_content", content, "", _hash_content(content))
    /\ UNCHANGED <<channel_memories, files, pc, entry, channel, prior, iteration,
                   result, oracle_calls, snapshot, last_step, capabilities, history,
                   invocations, total_steps, memVars, dispatchVars, emitted,
                   extraVars>>

\* agent.maybe_store_large_content(content, prefix)
Present(content, prefix) ==
    LET presented == maybe_store_large_content(content, prefix, kv_store) IN
    /\ StoreCalls < MaxStoreCalls
    /\ kv_store' = presented.store
    /\ store_op' = StoreOp("maybe_store_large_content", content, prefix, presented.text)
    /\ emitted' = IF Len(content) > MAX_CONTEXT_LENGTH
                  THEN emitted \cup {[key |-> EmittedKey(presented.text),
                                      content |-> content]}
                  ELSE emitted
    /\ UNCHANGED <<channel_memories, files, pc, entry, channel, prior, iteration,
                   result, oracle_calls, snapshot, last_step, capabilities, history,
                   invocations, total_steps, memVars, dispatchVars, extraVars>>

\* kv_store.get_content(sha_key)
GetContent(sha_key) ==
    /\ StoreCalls < MaxStoreCalls
    /\ store_op' = StoreOp("get_content", "", "", get_content(sha_key, kv_store))
    /\ UNCHANGED <<loopVars, memVars, dispatchVars, emitted, extraVars>>

\* kv_store.clear_store()
ClearStore ==
    /\ StoreCalls < MaxStoreCalls
    /\ kv_store' = clear_store(kv_store)
    /\ store_op' = StoreOp("clear_store", "", "", "")
    /\ emitted' = {}
    /\ UNCHANGED <<channel_memories, files, pc, entry, channel, prior, iteration,
                   result, oracle_calls, snapshot, last_step, capabilities, history,
                   invocations, total_steps, memVars, dispatchVars, extraVars>>

StoreNext ==
    \/ \E content \in StoreContents : StoreContent(content)
    \/ \E content \in StoreContents, prefix \in Prefixes : Present(content, prefix)
    \/ \E sha_key \in StoreKeys : GetContent(sha_key)
    \/ ClearStore

SpecStore == StoreInit /\ [][StoreNext]_vars

(***************************************************************************)
(* Specification of the bot (src/bot.py): gateway events arrive in any     *)
(* order, each handler runs as its own task, and the tasks interleave at   *)
(* their awaits.  An entry point's pre-processing runs up to its first     *)
(* b.AgentStep call in one step; each answer of the oracle is one step.    *)
(***************************************************************************)

\* Gateway events (messages and button clicks) per behaviour.
MaxEvents == 3

\* b.AgentStep calls per behaviour, over all tasks.
MaxBotSteps == 5

\* ALLOWED_CHANNEL_IDS
allowed_channels == {1}

GuildChannels == {1, 2}

Authors == {"user", "bot"}

\* message.content.strip()
MessageContents == {"What is 2+2?", ""}

BotDecisions ==
    {FinalAnswer("4"), AskUser("Which city?", <<"Paris", "London">>),
     GatherInformation(<<>>)}
    \cup PerformActions

\* A handler task: where it is, the entry point it called, the oracle calls
\* that entry point has made, what it returned, and what set it off: for a
\* message its text (as choice), for a button callback the view and the button
\* clicked.
Task(handler, channel_id, at, entry_point, view, choice, approved) ==
    [handler |-> handler, channel |-> channel_id, pc |-> at, entry |-> entry_point,
     iteration |-> 0, calls |-> 0, result |-> None, view |-> view,
     choice |-> choice, approved |-> approved]

\* OptionsView(options) / ApprovalView(perform_action), as sent to a channel
View(channel_id, kind, options, perform_action) ==
    [channel |-> channel_id, kind |-> kind, options |-> options,
     perform_action |-> perform_action, disabled |-> FALSE, edited |-> FALSE]

RECURSIVE OracleCallsOf(_)
OracleCallsOf(ts) ==
    IF ts = <<>> THEN 0 ELSE Head(ts).calls + OracleCallsOf(Tail(ts))

BotUnchanged == UNCHANGED <<pc, entry, channel, prior, iteration, result, oracle_calls,
                            snapshot, last_step, capabilities, history, invocations,
                            total_steps, memVars, dispatchVars, storeVars, aliasVars,
                            equivVars, cliVars>>

\* on_message: a message from a bot, from a channel the bot does not listen
\* to, or without text is dropped; any other goes to process_user_input, which
\* calls run_agent_loop.
on_message(channel_id, author, content) ==
    /\ events < MaxEvents
    /\ events' = events + 1
    /\ IF \/ author = "bot"
          \/ (allowed_channels # {} /\ channel_id \notin allowed_channels)
          \/ content = ""
       THEN UNCHANGED <<channel_memories, tasks>>
       ELSE LET registry == get_channel_memory(channel_memories, channel_id) IN
            /\ channel_memories' =
                   [registry EXCEPT ![channel_id] = add_user_message(@, content)]
            /\ tasks' = Append(tasks, Task("on_message", channel_id, "loop",
                                           "run_agent_loop", 0, content, FALSE))
    /\ UNCHANGED <<kv_store, files, views, sent>>
    /\ BotUnchanged

\* A user presses a button of a view whose message still shows its buttons
\* enabled: the callback is scheduled.
Click(v, choice, approved) ==
    /\ events < MaxEvents
    /\ events' = events + 1
    /\ v \in 1..Len(views)
    /\ ~ views[v].edited
    /\ tasks' = Append(tasks,
           Task(IF views[v].kind = "options" THEN "OptionButton.callback"
                ELSE "ApprovalButton.callback",
                views[v].channel, "callback", "none", v, choice, approved))
    /\ UNCHANGED <<channel_memories, kv_store, files, views, sent>>
    /\ BotUnchanged

ClickOption(v, choice) ==
    /\ v \in 1..Len(views)
    /\ views[v].kind = "options"
    /\ \E i \in 1..Len(views[v].options) : views[v].options[i] = choice
    /\ Click(v, choice, FALSE)

ClickApproval(v, approved) ==
    /\ v \in 1..Len(views)
    /\ views[v].kind = "approval"
    /\ Click(v, "", approved)

\* A button callback runs: it disables the buttons of its view, edits the
\* message, and calls its entry point.
Callback(t, entry_point, pass) ==
    /\ views' = [views EXCEPT ![tasks[t].view].disabled = TRUE,
                              ![tasks[t].view].edited = TRUE]
    /\ channel_memories' =
           [get_channel_memory(channel_memories, tasks[t].channel)
               EXCEPT ![tasks[t].channel] = pass.memory]
    /\ kv_store' = pass.store
    /\ files' = pass.fs
    /\ tasks' = [tasks EXCEPT ![t].pc = "loop", ![t].entry = entry_point]
    /\ UNCHANGED <<sent, events>>
    /\ BotUnchanged

OptionButton_callback(t) ==
    /\ t \in 1..Len(tasks)
    /\ tasks[t].pc = "callback"
    /\ tasks[t].handler = "OptionButton.callback"
    /\ LET registry == get_channel_memory(channel_memories, tasks[t].channel) IN
       Callback(t, "continue_after_user_choice",
                Pass(OnUserChoice(registry[tasks[t].channel], tasks[t].choice), None,
                     DispatchStart(kv_store, files)))

ApprovalButton_callback(t) ==
    /\ t \in 1..Len(tasks)
    /\ tasks[t].pc = "callback"
    /\ tasks[t].handler = "ApprovalButton.callback"
    /\ LET registry == get_channel_memory(channel_memories, tasks[t].channel) IN
       Callback(t, IF tasks[t].approved THEN "continue_after_tool_approval(approved)"
                   ELSE "continue_after_tool_approval(denied)",
                OnToolApproval(registry[tasks[t].channel],
                               views[tasks[t].view].perform_action[1],
                               tasks[t].approved, kv_store, files))

\* The pass a decision of the oracle leaves.
BotPass(memory, decision) == OnDecision(memory, decision, ServicesUp, kv_store, files)

\* The oracle answers the b.AgentStep call a task is waiting on, and the
\* task's loop runs to its next call or to its return.
OracleAnswers(t, decision) ==
    /\ t \in 1..Len(tasks)
    /\ tasks[t].pc = "loop"
    /\ tasks[t].iteration < MAX_ITERATIONS
    /\ OracleCallsOf(tasks) < MaxBotSteps
    /\ LET pass == BotPass(channel_memories[tasks[t].channel], decision) IN
       /\ channel_memories' = [channel_memories EXCEPT ![tasks[t].channel] = pass.memory]
       /\ kv_store' = pass.store
       /\ files' = pass.fs
       /\ tasks' = IF pass.returned = None
                   THEN [tasks EXCEPT ![t].iteration = @ + 1, ![t].calls = @ + 1]
                   ELSE [tasks EXCEPT ![t].pc = "result", ![t].calls = @ + 1,
                                      ![t].result = pass.returned]
    /\ UNCHANGED <<views, sent, events>>
    /\ BotUnchanged

\* The for loop of a task's entry point ran out.
TaskExhausted(t) ==
    /\ t \in 1..Len(tasks)
    /\ tasks[t].pc = "loop"
    /\ tasks[t].iteration = MAX_ITERATIONS
    /\ tasks' = [tasks EXCEPT ![t].pc = "result",
                              ![t].result = Some(OnExhausted(tasks[t].entry))]
    /\ UNCHANGED <<channel_memories, kv_store, files, views, sent, events>>
    /\ BotUnchanged

\* channel.send(text)
Sent(channel_id, kind, text) == [channel |-> channel_id, kind |-> kind, text |-> text]

\* handle_agent_result: the first field of the result that is truthy decides
\* what is sent.
handle_agent_result(t) ==
    /\ t \in 1..Len(tasks)
    /\ tasks[t].pc = "result"
    /\ tasks' = [tasks EXCEPT ![t].pc = "done"]
    /\ LET r == tasks[t].result[1]
           c == tasks[t].channel
       IN IF r.error # None /\ r.error[1] # ""
          THEN /\ sent' = Append(sent, Sent(c, "error", "Error: " \o r.error[1]))
               /\ UNCHANGED views
          ELSE IF r.response # None /\ r.response[1] # ""
          THEN /\ sent' = Append(sent, Sent(c, "response", r.response[1]))
               /\ UNCHANGED views
          ELSE IF r.ask_user # None
          THEN /\ sent' = Append(sent, Sent(c, "question", r.ask_user[1].question))
               /\ views' = Append(views, View(c, "options",
                                              PyPrefix(r.ask_user[1].options, 4), None))
          ELSE IF r.perform_action # None
          THEN /\ sent' = Append(sent, Sent(c, "approval",
                                            r.perform_action[1].reasoning))
               /\ views' = Append(views, View(c, "approval", <<>>, r.perform_action))
          ELSE UNCHANGED <<sent, views>>
    /\ UNCHANGED <<channel_memories, kv_store, files, events>>
    /\ BotUnchanged

BotInit == Init

BotNext ==
    \/ \E c \in GuildChannels, author \in Authors, content \in MessageContents :
          on_message(c, author, content)
    \/ \E v \in 1..Len(views), choice \in Choices : ClickOption(v, choice)
    \/ \E v \in 1..Len(views), approved \in BOOLEAN : ClickApproval(v, approved)
    \/ \E t \in 1..Len(tasks) : OptionButton_callback(t)
    \/ \E t \in 1..Len(tasks) : ApprovalButton_callback(t)
    \/ \E t \in 1..Len(tasks), decision \in BotDecisions : OracleAnswers(t, decision)
    \/ \E t \in 1..Len(tasks), message \in OracleFaults :
          OracleAnswers(t, [type |-> "fault", message |-> message])
    \/ \E t \in 1..Len(tasks) : TaskExhausted(t)
    \/ \E t \in 1..Len(tasks) : handle_agent_result(t)

SpecBot == BotInit /\ [][BotNext]_vars

(***************************************************************************)
(* Specification of the bot's replies: messages that are questions or the  *)
(* clear command, with an oracle that decides at its first call, and no    *)
(* button pressed                                                          *)
(***************************************************************************)

\* The prefix of commands.Bot and the name of the clear command
ClearCommand == "!clear"

ReplyContents == {"What is 2+2?", ClearCommand}

\* Decisions that end an invocation; the answer may be the empty text.
ReplyDecisions ==
    {FinalAnswer("4"), FinalAnswer(""), AskUser("Which city?", <<"Paris", "London">>)}
    \cup PerformActions

RepliesNext ==
    \/ \E c \in GuildChannels, author \in Authors, content \in ReplyContents :
          on_message(c, author, content)
    \/ \E t \in 1..Len(tasks), decision \in ReplyDecisions : OracleAnswers(t, decision)
    \/ \E t \in 1..Len(tasks), message \in OracleFaults :
          OracleAnswers(t, [type |-> "fault", message |-> message])
    \/ \E t \in 1..Len(tasks) : handle_agent_result(t)

SpecReplies == BotInit /\ [][RepliesNext]_vars

(***************************************************************************)
(* Specification of two sessions: the entry points and the clear command   *)
(* called for either of two channels, in any order                         *)
(***************************************************************************)

Sessions == {1, 2}

\* Calls of the clear command per behaviour.
MaxClears == 2

\* bot.clear_memory: the channel's memory is looked up and cleared, and the
\* channel is told so.
clear_memory(channel_id) ==
    /\ Len(sent) < MaxClears
    /\ LET registry == get_channel_memory(channel_memories, channel_id) IN
       channel_memories' = [registry EXCEPT ![channel_id] = clear(@)]
    /\ sent' = Append(sent, Sent(channel_id, "cleared", "Conversation history cleared."))
    /\ UNCHANGED <<kv_store, files, pc, entry, channel, prior, iteration, result,
                   oracle_calls, snapshot, last_step, capabilities, history,
                   invocations, total_steps, memVars, dispatchVars, storeVars,
                   tasks, views, events, aliasVars, equivVars, cliVars>>

SessionsNext ==
    \/ \E c \in Sessions, text \in UserTexts : run_agent_loop(c, text)
    \/ \E c \in Sessions, choice \in Choices : continue_after_user_choice(c, choice)
    \/ \E c \in Sessions, action \in PerformActions, approved \in BOOLEAN :
          continue_after_tool_approval(c, action, approved)
    \/ \E c \in Sessions : clear_memory(c)
    \/ \E response \in Responses : StepFinalAnswer(response)
    \/ StepAskUser
    \/ \E decision \in PerformActions : StepPerformAction(decision)
    \/ \E world \in LoopWorlds : StepGatherInformation(MixedBatch, world)
    \/ \E message \in OracleFaults : StepOracleFault(message)
    \/ LoopExhausted

SpecSessions == Init /\ [][SessionsNext]_vars

(***************************************************************************)
(* Specification of one ChannelMemory with its lists as objects: `heap`    *)
(* holds every list made, `live` is the one self.messages refers to, and   *)
(* `taken` are the lists get_messages has handed to callers.  Messages are *)
(* values: no code changes a message once it is made.                      *)
(***************************************************************************)

\* Lists made per behaviour.
MaxLists == 4

\* Calls of get_messages per behaviour.
MaxSnapshots == 2

\* Length up to which a caller grows a list it was handed.
MaxListLen == 3

\* max_messages of the memory
AliasCapacity == 2

AliasMessages == {Message("user", "a"), Message("tool", "b")}

\* self.messages.append(message), in place
appendRef(h, ref, message) == [h EXCEPT ![ref] = Append(@, message)]

\* _trim: self.messages = self.messages[-self.max_messages:], a new list
_trimRef(h, ref, capacity) ==
    IF Len(h[ref]) > capacity
    THEN [heap |-> Append(h, PyLastSlice(h[ref], capacity)), ref |-> Len(h) + 1]
    ELSE [heap |-> h, ref |-> ref]

\* add_message on the list self.messages refers to
add_messageRef(h, ref, capacity, message) ==
    _trimRef(appendRef(h, ref, message), ref, capacity)

\* self.messages.clear(), in place
clearRef(h, ref) == [h EXCEPT ![ref] = <<>>]

\* get_messages with the bug of returning self.messages itself.
get_messagesLive(h, ref) == [heap |-> h, ref |-> ref]

\* get_messages: self.messages.copy(), a new list
get_messagesRef(h, ref) == [heap |-> Append(h, h[ref]), ref |-> Len(h) + 1]

\* A list handed to a caller: the list, what it held when handed over, and
\* whether the caller has changed it since.
Snapshot(ref, held) == [ref |-> ref, held |-> held, touched |-> FALSE]

AliasUnchanged == UNCHANGED <<loopVars, memVars, dispatchVars, storeVars, botVars,
                              equivVars, cliVars>>

AliasInit ==
    /\ LoopIdle /\ MemoryIdle /\ DispatchIdle /\ StoreIdle /\ BotIdle /\ EquivIdle
    /\ CliIdle
    /\ heap = << <<>> >>
    /\ live = 1
    /\ taken = <<>>

AliasAdd(message) ==
    /\ Len(heap) < MaxLists
    /\ LET r == add_messageRef(heap, live, AliasCapacity, message) IN
       /\ heap' = r.heap
       /\ live' = r.ref
    /\ UNCHANGED taken
    /\ AliasUnchanged

AliasClear ==
    /\ heap' = clearRef(heap, live)
    /\ UNCHANGED <<live, taken>>
    /\ AliasUnchanged

AliasGetMessages ==
    /\ Len(heap) < MaxLists
    /\ Len(taken) < MaxSnapshots
    /\ LET r == get_messagesRef(heap, live) IN
       /\ heap' = r.heap
       /\ taken' = Append(taken, Snapshot(r.ref, r.heap[r.ref]))
    /\ UNCHANGED live
    /\ AliasUnchanged

\* The caller appends to a list it was handed.
CallerAppends(s, message) ==
    /\ s \in 1..Len(taken)
    /\ Len(heap[taken[s].ref]) < MaxListLen
    /\ heap' = appendRef(heap, taken[s].ref, message)
    /\ taken' = [taken EXCEPT ![s].touched = TRUE]
    /\ UNCHANGED live
    /\ AliasUnchanged

\* The caller empties a list it was handed.
CallerClears(s) ==
    /\ s \in 1..Len(taken)
    /\ heap[taken[s].ref] # <<>>
    /\ heap' = clearRef(heap, taken[s].ref)
    /\ taken' = [taken EXCEPT ![s].touched = TRUE]
    /\ UNCHANGED live
    /\ AliasUnchanged

AliasNext ==
    \/ \E message \in AliasMessages : AliasAdd(message)
    \/ AliasClear
    \/ AliasGetMessages
    \/ \E s \in 1..Len(taken) : CallerAppends(s, Message("user", "mine"))
    \/ \E s \in 1..Len(taken) : CallerClears(s)

SpecAlias == AliasInit /\ [][AliasNext]_vars

(***************************************************************************)
(* Specification of the two loops side by side: run_agent_loop, and the    *)
(* user message appended followed by run_agent_loop_internal, each run     *)
(* from the same memory against the same decisions of the oracle           *)
(***************************************************************************)

Fault(message) == [type |-> "fault", message |-> message]

\* Decisions after which the loop goes on.
Continuing == {GatherInformation(<<>>), GatherInformation(MixedBatch)}

\* Decisions and faults on which the loop returns.
Returning ==
    {FinalAnswer("4"), AskUser("Which city?", <<"Paris", "London">>)}
    \cup PerformActions \cup {Fault(message) : message \in OracleFaults}

RECURSIVE SeqsOf(_, _)
SeqsOf(S, n) ==
    IF n = 0 THEN {<<>>}
    ELSE {Append(s, x) : s \in SeqsOf(S, n - 1), x \in S}

\* What the oracle answers during one invocation: decisions that continue,
\* ended by one that returns or by the budget.
Scripts ==
    UNION {{Append(s, d) : s \in SeqsOf(Continuing, n), d \in Returning} :
              n \in 0..(MAX_ITERATIONS - 1)}
    \cup SeqsOf(Continuing, MAX_ITERATIONS)

EquivInit ==
    /\ LoopIdle /\ MemoryIdle /\ DispatchIdle /\ StoreIdle /\ BotIdle /\ AliasIdle
    /\ CliIdle
    /\ script \in Scripts
    /\ outcomes = <<>>

Ran(entry_point) == \E o \in 1..Len(outcomes) : outcomes[o].entry = entry_point

EquivUnchanged == UNCHANGED <<loopVars, memVars, dispatchVars, storeVars, botVars,
                              aliasVars, cliVars, script>>

\* run_agent_loop(channel_id, user_input) on a memory holding n earlier
\* messages
RunDirect(n, user_input) ==
    /\ ~ Ran("run_agent_loop")
    /\ \A o \in 1..Len(outcomes) : outcomes[o].prior = n
    /\ LET memory == add_messages(ChannelMemory(DEFAULT_MAX_MESSAGES), InitialMessages(n))
           o == RunLoop("run_agent_loop", add_user_message(memory, user_input), script,
                        ServicesUp, <<>>, InitialFiles, 0)
       IN outcomes' = Append(outcomes, o @@ [prior |-> n])
    /\ EquivUnchanged

\* memory.add_user_message(user_input), then run_agent_loop_internal(channel_id),
\* on a memory holding n earlier messages
RunInternal(n, user_input) ==
    /\ ~ Ran("run_agent_loop_internal")
    /\ \A o \in 1..Len(outcomes) : outcomes[o].prior = n
    /\ LET memory == add_messages(ChannelMemory(DEFAULT_MAX_MESSAGES), InitialMessages(n))
           o == RunLoop("run_agent_loop_internal", add_user_message(memory, user_input),
                        script, ServicesUp, <<>>, InitialFiles, 0)
       IN outcomes' = Append(outcomes, o @@ [prior |-> n])
    /\ EquivUnchanged

EquivPriors == {0, 19}

EquivNext ==
    \/ \E n \in EquivPriors, text \in UserTexts : RunDirect(n, text)
    \/ \E n \in EquivPriors, text \in UserTexts : RunInternal(n, text)

SpecEquivalence == EquivInit /\ [][EquivNext]_vars

(***************************************************************************)
(* Specification of two sessions and the one content store: run_agent_loop *)
(* called for either channel, with an oracle that fetches a long page or   *)
(* asks for stored content by key                                          *)
(***************************************************************************)

SharedStoreNext ==
    \/ \E c \in Sessions, text \in UserTexts : run_agent_loop(c, text)
    \/ \E tool_calls \in {PageBatch, RetrieveBatch}, world \in LoopWorlds :
          StepGatherInformation(tool_calls, world)
    \/ \E response \in Responses : StepFinalAnswer(response)

SpecSharedStore == Init /\ [][SharedStoreNext]_vars

(***************************************************************************)
(* Specification of the interactive session of query_agent.py: main clears *)
(* the session's memory and calls query_agent_interactive, whose while     *)
(* loop reads the terminal and calls the loop's entry points               *)
(***************************************************************************)

CLI_CHANNEL_ID == 888888

MaxCliPasses == 3

Queries == {"What is 2+2?"}

\* Lines typed at "Continue conversation? (yes/no): ".
ContinueLines == {" Yes ", "n"}

\* Lines typed at "Your message: ".
MessageLines == {"And 3+3?", " "}

\* Lines typed at "Your choice (number or custom text): ", until the terminal
\* is closed.
ChoiceLines == {<<"1">>, <<"", "Rome">>, <<"9", " 2 ">>, <<"">>}

CliResponses == {"4", ""}

\* str.strip over blanks.
RECURSIVE strip(_)
strip(s) ==
    IF s = "" THEN ""
    ELSE IF SubSeq(s, 1, 1) = " " THEN strip(SubSeq(s, 2, Len(s)))
    ELSE IF SubSeq(s, Len(s), Len(s)) = " " THEN strip(SubSeq(s, 1, Len(s) - 1))
    ELSE s

UpperToLower ==
    [c \in {"Y", "E", "S", "N", "O"} |->
        CASE c = "Y" -> "y" [] c = "E" -> "e" [] c = "S" -> "s"
          [] c = "N" -> "n" [] c = "O" -> "o"]

\* str.lower over the letters of the answers.
RECURSIVE lower(_)
lower(s) ==
    IF s = "" THEN ""
    ELSE LET c == SubSeq(s, 1, 1)
         IN (IF c \in DOMAIN UpperToLower THEN UpperToLower[c] ELSE c)
            \o lower(SubSeq(s, 2, Len(s)))

DigitValue ==
    [c \in {"0", "1", "2", "3", "4", "5", "6", "7", "8", "9"} |->
        CASE c = "0" -> 0 [] c = "1" -> 1 [] c = "2" -> 2 [] c = "3" -> 3
          [] c = "4" -> 4 [] c = "5" -> 5 [] c = "6" -> 6 [] c = "7" -> 7
          [] c = "8" -> 8 [] c = "9" -> 9]

RECURSIVE DigitsValue(_, _)
DigitsValue(s, acc) ==
    IF s = "" THEN acc
    ELSE DigitsValue(SubSeq(s, 2, Len(s)), 10 * acc + DigitValue[SubSeq(s, 1, 1)])

\* int(choice_input): the number of a string of decimal digits; None stands
\* for ValueError.
int(s) ==
    IF s # "" /\ \A i \in 1..Len(s) : SubSeq(s, i, i) \in DOMAIN DigitValue
    THEN Some(DigitsValue(s, 0))
    ELSE None

\* The inner while loop of the ask_user branch: one prompt per line read; an
\* empty line and a number out of range prompt again; a closed terminal makes
\* input() raise EOFError after the prompt was printed (choice None).
RECURSIVE ReadChoice(_, _, _)
ReadChoice(lines, options, prompts) ==
    IF lines = <<>>
    THEN [choice |-> None, prompts |-> prompts + 1]
    ELSE LET choice_input == strip(Head(lines))
             choice_num == int(choice_input)
         IN IF choice_input = ""
            THEN ReadChoice(Tail(lines), options, prompts + 1)
            ELSE IF choice_num = None
            THEN [choice |-> Some(choice_input), prompts |-> prompts + 1]
            ELSE IF 1 <= choice_num[1] /\ choice_num[1] <= Len(options)
            THEN [choice |-> Some(options[choice_num[1]]), prompts |-> prompts + 1]
            ELSE ReadChoice(Tail(lines), options, prompts + 1)

\* The session: the call of the loop it is waiting for (the calls-th
\* invocation of the process), the prompts printed and the passes of the
\* while loop made so far.
Cli(at, entry_point, text, calls, prompts, passes) ==
    [at |-> at, entry_point |-> entry_point, text |-> text, calls |-> calls,
     prompts |-> prompts, passes |-> passes]

CliUnchanged ==
    UNCHANGED <<kv_store, files, pc, entry, channel, prior, iteration, result,
                oracle_calls, snapshot, last_step, capabilities, history,
                invocations, total_steps, memVars, dispatchVars, storeVars,
                botVars, aliasVars, equivVars>>

\* main with --interactive: the memory of the CLI channel is cleared and
\* query_agent_interactive starts with the query.
main(query) ==
    /\ cli = None
    /\ LET registry == get_channel_memory(channel_memories, CLI_CHANNEL_ID) IN
       channel_memories' = [registry EXCEPT ![CLI_CHANNEL_ID] = clear(@)]
    /\ cli' = Cli("awaiting", "run_agent_loop", query, invocations + 1, 0, 0)
    /\ CliUnchanged

\* The await of query_agent_interactive: the entry point is called.
CliAwait ==
    /\ cli # None
    /\ cli.at = "awaiting"
    /\ invocations < cli.calls
    /\ IF cli.entry_point = "run_agent_loop"
       THEN run_agent_loop(CLI_CHANNEL_ID, cli.text)
       ELSE continue_after_user_choice(CLI_CHANNEL_ID, cli.text)

\* One pass of `while True` over the result the call returned.
query_agent_interactive(continue_line, message_line, lines) ==
    /\ cli # None
    /\ cli.at = "awaiting"
    /\ invocations = cli.calls
    /\ pc = "idle"
    /\ result # None
    /\ cli.passes < MaxCliPasses
    /\ LET r == result[1]
           passed == [cli EXCEPT !.passes = @ + 1]
       IN IF r.response # None /\ r.response[1] # ""
          THEN IF lower(strip(continue_line)) \notin {"yes", "y"}
               THEN cli' = [passed EXCEPT !.at = "exited", !.prompts = @ + 1]
               ELSE IF strip(message_line) = ""
               THEN cli' = [passed EXCEPT !.at = "exited", !.prompts = @ + 2]
               ELSE cli' = [passed EXCEPT !.entry_point = "run_agent_loop",
                                          !.text = strip(message_line),
                                          !.calls = @ + 1, !.prompts = @ + 2]
          ELSE IF r.ask_user # None
          THEN LET read == ReadChoice(lines, r.ask_user[1].options, cli.prompts)
               IN IF read.choice = None
                  THEN cli' = [passed EXCEPT !.at = "exited",
                                             !.prompts = read.prompts]
                  ELSE cli' = [passed EXCEPT
                                  !.entry_point = "continue_after_user_choice",
                                  !.text = read.choice[1],
                                  !.calls = @ + 1, !.prompts = read.prompts]
          ELSE IF r.error # None /\ r.error[1] # ""
          THEN cli' = [passed EXCEPT !.at = "exited"]
          ELSE cli' = passed
    /\ UNCHANGED channel_memories
    /\ CliUnchanged

CliNext ==
    \/ \E query \in Queries : main(query)
    \/ CliAwait
    \/ \E continue_line \in ContinueLines, message_line \in MessageLines,
          lines \in ChoiceLines :
          query_agent_interactive(continue_line, message_line, lines)
    \/ \E response \in CliResponses : StepFinalAnswer(response)
    \/ StepAskUser
    \/ \E decision \in PerformActions : StepPerformAction(decision)
    \/ StepGatherInformation(<<>>, ServicesUp)
    \/ \E message \in OracleFaults : StepOracleFault(message)
    \/ LoopExhausted

SpecCli == Init /\ [][CliNext]_vars

(***************************************************************************)
(* Properties                                                              *)
(***************************************************************************)

\* the last n elements of s, for n <= Len(s)
LastN(s, n) == SubSeq(s, Len(s) - n + 1, Len(s))

Min(a, b) == IF a <= b THEN a ELSE b

Range(s) == {s[i] : i \in 1..Len(s)}

\* s with x appended, cut to the last `capacity` messages
Kept(s, capacity) == LastN(s, Min(capacity, Len(s)))

ResultFields == {"response", "ask_user", "perform_action", "error"}

FieldsSet(r) == {f \in ResultFields : r[f] # None}

Returned == pc = "idle" /\ result # None

\* C1: approval gating.  Whatever the sequence of entry-point calls and of
\* oracle decisions, read_file, write_file and execute_bash are called only by
\* the pre-processing of continue_after_tool_approval with approved = true:
\* no pass of the loop calls one, whether its decision is PerformAction or a
\* GatherInformation holding ReadFile, WriteFile or Bash requests, and no
\* pass changes the file system.
C1_ActionCalls ==
    \A i \in 1..Len(capabilities) :
        capabilities[i].fn \in ActionCapabilities
        => /\ capabilities[i].during = "entry"
           /\ capabilities[i].by = "execute_action_tools"
           /\ entry = "continue_after_tool_approval(approved)"

C1_ApprovalGating ==
    [][/\ C1_ActionCalls'
       /\ files' # files => /\ pc = "idle"
                            /\ entry' = "continue_after_tool_approval(approved)"]_vars

\* A run_agent_loop invocation has dispatched a GatherInformation batch that
\* held ReadFile, WriteFile and Bash requests and then returned a
\* PerformAction, and nothing was read, written or run.
C1_Witness ==
    /\ Returned
    /\ entry = "run_agent_loop"
    /\ result[1].perform_action # None
    /\ \E i \in 1..Len(capabilities) :
          /\ capabilities[i].during = "GatherInformation"
          /\ VariantOf(MixedBatch[capabilities[i].request]) = "WriteFile"
    /\ files = InitialFiles

\* C2: denial.  continue_after_tool_approval with approved = false appends
\* exactly one message, the user message "[User denied tool execution]",
\* before the first oracle call of the resumed loop, whose snapshot ends with
\* it, and the invocation calls no action capability and leaves the file
\* system alone.
C2_DenialStep ==
    /\ (invocations' = invocations + 1
        /\ entry' = "continue_after_tool_approval(denied)")
       => /\ channel_memories'[channel'].messages =
                Kept(Append(prior', Message("user", DenialMarker)),
                     DEFAULT_MAX_MESSAGES)
          /\ oracle_calls' = 0
          /\ capabilities' = <<>>
          /\ files' = files
    /\ (entry = "continue_after_tool_approval(denied)" /\ invocations' = invocations)
       => /\ files' = files
          /\ \A i \in 1..Len(capabilities') :
                capabilities'[i].fn \notin ActionCapabilities
          /\ (oracle_calls = 0 /\ oracle_calls' = 1)
             => /\ snapshot' # <<>>
                /\ snapshot'[Len(snapshot')] = Message("user", DenialMarker)
                /\ snapshot' = Kept(Append(prior, Message("user", DenialMarker)),
                                    DEFAULT_MAX_MESSAGES)

C2_Denial == [][C2_DenialStep]_vars

\* A denied action: the resumed loop has made its first oracle call, and the
\* memory held messages before the denial.
C2_Witness ==
    /\ entry = "continue_after_tool_approval(denied)"
    /\ oracle_calls = 1
    /\ prior # <<>>
    /\ snapshot[Len(snapshot)] = Message("user", DenialMarker)

\* C3: iteration budget.  An invocation of any entry point calls the oracle
\* at most MAX_ITERATIONS = 5 times; after five GatherInformation decisions
\* the next step returns, and a result is the budget-exhaustion error exactly
\* when the oracle was called five times and every decision was
\* GatherInformation.
C3_BudgetStep ==
    /\ oracle_calls' <= 5
    /\ (pc = "running" /\ oracle_calls = 5 /\ last_step.kind = "GatherInformation")
       => /\ pc' = "idle"
          /\ oracle_calls' = 5
          /\ result' # None
          /\ result'[1].error \in {Some(BudgetMessage), Some(InternalBudgetMessage)}
          /\ result'[1].error = Some(BudgetMessage) <=> entry = "run_agent_loop"
          /\ FieldsSet(result'[1]) = {"error"}
    /\ (pc' = "running" /\ invocations' = invocations)
       => /\ last_step'.kind \in {"entry", "GatherInformation"}
          /\ iteration' = oracle_calls'
    /\ (pc' = "idle" /\ result' # None
        /\ result'[1].error \in {Some(BudgetMessage), Some(InternalBudgetMessage)})
       => oracle_calls' = 5 /\ iteration' = 5

C3_IterationBudget == [][C3_BudgetStep]_vars

\* A resumed loop has used up its budget with GatherInformation decisions.
C3_Witness ==
    /\ Returned
    /\ entry = "continue_after_user_choice"
    /\ oracle_calls = 5
    /\ result[1].error = Some(InternalBudgetMessage)

\* C4: every AgentResult returned has exactly one of its four fields set.
C4_ExactlyOneField ==
    result # None => Cardinality(FieldsSet(result[1])) = 1

\* Each kind of result has been returned: the witness is the one of an oracle
\* fault.
C4_Witness ==
    /\ Returned
    /\ last_step.kind = "fault"
    /\ FieldsSet(result[1]) = {"error"}

\* C5: capacity invariant.  For every capacity C, after each add_* call on a
\* ChannelMemory with max_messages = C the memory holds at most C messages,
\* and they are the last min(C, number appended) messages appended, in order.
C5_CapacityInvariant ==
    /\ Len(mem.messages) <= mem.max_messages
    /\ mem.messages = LastN(appended, Min(mem.max_messages, Len(appended)))

\* C6: oracle fault.  When b.AgentStep raises, the step returns AgentResult
\* error "Agent error: <message>" at once, the memory is what it was just
\* before the call (the snapshot given to it), and the oracle is not called
\* again in that invocation.
C6_FaultStep ==
    /\ (oracle_calls' = oracle_calls + 1 /\ last_step'.kind = "fault")
       => /\ pc' = "idle"
          /\ result' # None
          /\ result'[1].error \in {Some("Agent error: " \o m) : m \in OracleFaults}
          /\ FieldsSet(result'[1]) = {"error"}
          /\ channel_memories' = channel_memories
          /\ snapshot' = get_messages(channel_memories'[channel'])
    /\ (pc = "idle" /\ invocations' = invocations) => oracle_calls' = oracle_calls

C6_OracleFault == [][C6_FaultStep]_vars

\* The oracle has failed on the third call of an invocation, after two
\* batches were dispatched.
C6_Witness ==
    /\ Returned
    /\ last_step.kind = "fault"
    /\ oracle_calls = 3
    /\ Len(capabilities) > 0

\* The error messages of a batch that the memory still holds once the whole
\* batch is appended: those of its last max_messages failures.
RetainedErrors(errors) == Kept(errors, DEFAULT_MAX_MESSAGES)

ErrorMessages(errors) == [i \in 1..Len(errors) |-> Message("error", errors[i])]

\* A pass whose GatherInformation batch had a failing tool call, in an
\* iteration that is not the last.
GatherFailedEarly ==
    /\ oracle_calls' = oracle_calls + 1
    /\ last_step'.kind = "GatherInformation"
    /\ last_step'.errors # <<>>
    /\ iteration < 4

\* The next oracle call after a pass whose batch had a failing tool call.
CalledAgainAfterFailure ==
    /\ oracle_calls' = oracle_calls + 1
    /\ last_step.kind = "GatherInformation"
    /\ last_step.errors # <<>>

C8_PartialFailure ==
    dispatched # None
    => LET done == dispatched[1]
           N == Len(batch)
           M == Cardinality({i \in 1..Len(done.calls) : done.calls[i].failed})
       IN /\ Len(done.calls) = N
          /\ \A i \in 1..Len(done.calls) : done.calls[i].request = i
          /\ Len(done.errors) = M
          /\ Len(done.results) = N - M

\* The first pass of a run_agent_loop invocation, with a FinalAnswer decision.
AnsweredAtOnce ==
    /\ entry = "run_agent_loop"
    /\ oracle_calls = 0
    /\ oracle_calls' = 1
    /\ last_step'.kind = "FinalAnswer"

\* The prior messages, then the user message, then the assistant message.
WithQuestionAndAnswer(P, text, r) ==
    P \o <<Message("user", text), Message("assistant", r)>>

\* C9 as stated: for any prior memory P, run_agent_loop whose oracle answers
\* FinalAnswer(r) on its first call returns response r and leaves the memory
\* equal to P, the user message and the assistant message, nothing added or
\* removed.
C9_NothingRemoved ==
    [][AnsweredAtOnce
       => \E text \in UserTexts, r \in Responses :
             /\ result' = Some([AgentResult EXCEPT !.response = Some(r)])
             /\ channel_memories'[channel'].messages =
                    WithQuestionAndAnswer(prior, text, r)]_vars

\* C9, amended: for any prior memory P, run_agent_loop whose oracle answers
\* FinalAnswer(r) on its first call returns response r and leaves the memory
\* equal to the last max_messages = 20 messages of the sequence made of P, the
\* user message and the assistant message; the oldest messages of P are
\* evicted when P holds more than 18 messages.
C9_FinalAnswer ==
    [][AnsweredAtOnce
       => \E text \in UserTexts, r \in Responses :
             /\ result' = Some([AgentResult EXCEPT !.response = Some(r)])
             /\ pc' = "idle"
             /\ channel_memories'[channel'].messages =
                    Kept(WithQuestionAndAnswer(prior, text, r),
                         DEFAULT_MAX_MESSAGES)]_vars

\* run_agent_loop has answered at once on a channel that held 19 messages.
C9_Witness ==
    /\ Returned
    /\ entry = "run_agent_loop"
    /\ oracle_calls = 1
    /\ last_step.kind = "FinalAnswer"
    /\ Len(prior) = DEFAULT_MAX_MESSAGES - 1
    /\ Len(channel_memories[channel].messages) = DEFAULT_MAX_MESSAGES

\* C10: a pass whose decision is AskUser or PerformAction appends nothing to
\* the memory and calls no tool: the invocation returns with the memory equal
\* to the snapshot given to that oracle call, and with the content store and
\* the file system as they were.
C10_Step ==
    (oracle_calls' = oracle_calls + 1 /\ last_step'.kind \in {"AskUser", "PerformAction"})
    => /\ pc' = "idle"
       /\ result' # None
       /\ FieldsSet(result'[1]) =
             (IF last_step'.kind = "AskUser" THEN {"ask_user"} ELSE {"perform_action"})
       /\ channel_memories' = channel_memories
       /\ get_messages(channel_memories'[channel']) = snapshot'
       /\ capabilities' = capabilities
       /\ kv_store' = kv_store
       /\ files' = files

C10_NothingAppended == [][C10_Step]_vars

\* An invocation has returned an AskUser after a dispatched batch.
C10_Witness ==
    /\ Returned
    /\ last_step.kind = "AskUser"
    /\ result[1].ask_user # None
    /\ oracle_calls = 2
    /\ Len(capabilities) > 0

\* The entry point `name` is being called.
Entering(name) == pc = "idle" /\ pc' = "running" /\ entry' = name

\* The first b.AgentStep call of an invocation of `name`.
FirstOracleCall(name) == entry = name /\ oracle_calls = 0 /\ oracle_calls' = 1

Last(s) == s[Len(s)]

\* C11: continue_after_user_choice(session, c) appends exactly one message,
\* the user message "I choose: " + c, before the first oracle call of the
\* resumed loop, whose snapshot ends with that message.  The question is not
\* appended by the return that asked it, nor by the resumption.
C11_Step ==
    /\ Entering("continue_after_user_choice")
       => \E c \in Choices :
             /\ channel_memories'[channel'].messages =
                    Kept(Append(prior', Message("user", "I choose: " \o c)),
                         DEFAULT_MAX_MESSAGES)
             /\ oracle_calls' = 0
    /\ FirstOracleCall("continue_after_user_choice")
       => /\ snapshot' = get_messages(Memory)
          /\ \E c \in Choices :
                /\ snapshot' = Kept(Append(prior, Message("user", "I choose: " \o c)),
                                    DEFAULT_MAX_MESSAGES)
                /\ Last(snapshot') = Message("user", "I choose: " \o c)
    /\ (result' # None /\ result'[1].ask_user # None /\ pc = "running")
       => /\ channel_memories' = channel_memories
          /\ \A i \in 1..Len(channel_memories'[channel'].messages) :
                channel_memories'[channel'].messages[i].content
                    # result'[1].ask_user[1].question

ToolMessages(results) == [i \in 1..Len(results) |-> Message("tool", results[i])]

\* The tool function execute_action_tools calls for a request.
ActionFunction(tool_call) ==
    CASE VariantOf(tool_call) = "WriteFile" -> "write_file"
      [] VariantOf(tool_call) = "ReadFile" -> "read_file"
      [] VariantOf(tool_call) = "Bash" -> "execute_bash"

\* The messages an approved action leaves behind prior memory P: a tool
\* message per success, then an error message per error.
AfterAction(P, step) ==
    Kept(P \o ToolMessages(step.results) \o ErrorMessages(step.errors),
         DEFAULT_MAX_MESSAGES)

\* C12: continue_after_tool_approval with approved=true runs the action
\* dispatcher over exactly the tool_calls of the PerformAction passed in, in
\* their order, appends every success as a tool message and then every error
\* as an error message, and only after all these appends makes the first
\* oracle call of the resumed loop.
C12_Step ==
    /\ Entering("continue_after_tool_approval(approved)")
       => \E action \in PerformActions :
             LET tool_calls == action.tool_calls
                 failed == {i \in 1..Len(tool_calls) : capabilities'[i].failed}
             IN /\ last_step'.requests = tool_calls
                /\ Len(capabilities') = Len(tool_calls)
                /\ \A i \in 1..Len(tool_calls) :
                      /\ capabilities'[i].request = i
                      /\ capabilities'[i].by = "execute_action_tools"
                      /\ capabilities'[i].fn = ActionFunction(tool_calls[i])
                      /\ capabilities'[i].during = "entry"
                /\ Len(last_step'.errors) = Cardinality(failed)
                /\ Len(last_step'.results) = Len(tool_calls) - Cardinality(failed)
                /\ channel_memories'[channel'].messages = AfterAction(prior', last_step')
                /\ oracle_calls' = 0
    /\ FirstOracleCall("continue_after_tool_approval(approved)")
       => /\ snapshot' = get_messages(Memory)
          /\ snapshot' = AfterAction(prior, history[1])

C12_Approval == [][C12_Step]_vars

\* The loop resumed by an approval has made its first oracle call; the file was
\* written, and the snapshot holds the write's tool message before the error
\* message of the write that failed before it.
C12_Witness ==
    /\ entry = "continue_after_tool_approval(approved)"
    /\ oracle_calls = 1
    /\ "/tmp/out.txt" \in DOMAIN files
    /\ \E i, j \in 1..Len(snapshot) :
          /\ i < j
          /\ snapshot[i] = Message("tool",
                 "WriteFile (save the answer): Successfully wrote 5 characters to /tmp/out.txt")
          /\ snapshot[j] = Message("error",
                 "WriteFile failed (overwrite): Permission denied: /etc/passwd")

\* The tool and error messages the steps of an invocation have appended to the
\* memory, in order: per step the successes, then the errors.
RECURSIVE Produced(_)
Produced(steps) ==
    IF steps = <<>> THEN <<>>
    ELSE ToolMessages(Head(steps).results) \o ErrorMessages(Head(steps).errors)
         \o Produced(Tail(steps))

\* The loop ends on its budget after MAX_ITERATIONS GatherInformation decisions
\* with non-empty tool_calls.
ExhaustedAfterGathering ==
    /\ pc = "running"
    /\ pc' = "idle"
    /\ last_step'.kind = "exhausted"
    /\ result'[1].error \in {Some(BudgetMessage), Some(InternalBudgetMessage)}
    /\ Len(history) = MAX_ITERATIONS + 1
    /\ \A i \in 2..Len(history) :
          history[i].kind = "GatherInformation" /\ history[i].requests # <<>>

\* C13 as stated: when an invocation ends with the budget-exhaustion error
\* after 5 GatherInformation decisions with non-empty tool_calls, the memory
\* contains every tool-result and error message its dispatches produced.
C13_EverythingRetained ==
    [][ExhaustedAfterGathering
       => Range(Produced(history)) \subseteq Range(channel_memories'[channel'].messages)]_vars

\* C13, amended: when an invocation ends with the budget-exhaustion error
\* after 5 GatherInformation decisions with non-empty tool_calls, the memory
\* ends with the last max_messages = 20 of the tool-result and error messages
\* its dispatches produced, in the order they were produced (all of them when
\* there are at most 20); nothing is rolled back.
C13_BudgetKeepsContext ==
    [][ExhaustedAfterGathering
       => LET produced == Produced(history)
              k == Min(DEFAULT_MAX_MESSAGES, Len(produced))
              memory == channel_memories'[channel'].messages
          IN /\ channel_memories' = channel_memories
             /\ Len(memory) >= k
             /\ LastN(memory, k) = LastN(produced, k)]_vars

\* An invocation has ended on its budget after five dispatches that produced
\* more messages than the memory holds.
C13_Witness ==
    /\ Returned
    /\ result[1].error = Some(BudgetMessage)
    /\ Len(history) = MAX_ITERATIONS + 1
    /\ \A i \in 2..Len(history) : history[i].requests # <<>>
    /\ Len(Produced(history)) > DEFAULT_MAX_MESSAGES
    /\ Len(Memory.messages) = DEFAULT_MAX_MESSAGES

\* A step that is a call of the store function fn.
Calling(fn) ==
    /\ store_op' # None
    /\ store_op'[1].fn = fn
    /\ store_op'[1].call = StoreCalls + 1

\* C14: the oversized-content policy.  maybe_store_large_content(content,
\* prefix) returns prefix + content and leaves the store unchanged when
\* len(content) <= 2000; otherwise it stores the full content under its key K
\* and returns prefix + the first 1800 characters + a notice that states
\* len(content) and K.  Length 2000 passes through whole, length 2001 is cut
\* to 1800.
C14_Step ==
    \A content \in StoreContents, prefix \in Prefixes :
       (/\ Calling("maybe_store_large_content")
        /\ store_op'[1].content = content
        /\ store_op'[1].prefix = prefix)
       => LET text == store_op'[1].returned IN
          IF Len(content) <= 2000
          THEN text = prefix \o content /\ kv_store' = kv_store
          ELSE LET head == prefix \o SubSeq(content, 1, 1800)
                   notice == SubSeq(text, Len(head) + 1, Len(text))
                   K == EmittedKey(text)
               IN /\ StartsWith(text, head)
                  /\ Contains(notice, ToString(Len(content)) \o " chars total")
                  /\ ~ StartsWith(notice, "x")
                  /\ K = _hash_content(content)
                  /\ Contains(notice, "SHA=" \o K)
                  /\ get_content(K, kv_store') = Some(content)
                  /\ \A k \in DOMAIN kv_store \ {K} :
                        get_content(k, kv_store') = get_content(k, kv_store)

C14_OversizedContent == [][C14_Step]_vars

\* Both sides of the boundary have been presented: a content of 2001
\* characters was cut and stored, and then one of 2000 characters came back
\* whole, with its prefix, and was not stored.
C14_Witness ==
    /\ store_op # None
    /\ store_op[1].fn = "maybe_store_large_content"
    /\ Len(store_op[1].content) = MAX_CONTEXT_LENGTH
    /\ store_op[1].prefix # ""
    /\ Len(store_op[1].returned) = Len(store_op[1].prefix) + MAX_CONTEXT_LENGTH
    /\ emitted = {[key |-> "9f2c9dcd", content |-> Repeat("x", MAX_CONTEXT_LENGTH + 1)]}
    /\ DOMAIN kv_store = {"9f2c9dcd"}

\* C15: the truncation round trip.  For every content longer than
\* MAX_CONTEXT_LENGTH, the key K that maybe_store_large_content gave out
\* satisfies get_content(K) = content right afterwards and after any later
\* store_content calls for other contents, until clear_store.
C15_RoundTrip ==
    \A e \in emitted : get_content(e.key, kv_store) = Some(e.content)

\* C16: content addressing is deterministic and the store is idempotent.
\* store_content(c) called twice with the same c returns the same key both
\* times, and the second call leaves the store (its key set, its values and
\* get_store_size()) unchanged.
C16_Step ==
    (/\ store_op # None
     /\ store_op[1].fn = "store_content"
     /\ Calling("store_content")
     /\ store_op'[1].content = store_op[1].content)
    => /\ store_op'[1].returned = store_op[1].returned
       /\ DOMAIN kv_store' = DOMAIN kv_store
       /\ \A k \in DOMAIN kv_store : kv_store'[k] = kv_store[k]
       /\ get_store_size(kv_store') = get_store_size(kv_store)
       /\ get_content(store_op'[1].returned, kv_store') = Some(store_op'[1].content)

C16_Idempotent == [][C16_Step]_vars

\* store_content has been called twice in a row with the same content, which
\* the store holds under one key.
C16_Witness ==
    /\ store_op # None
    /\ store_op[1].call = 2
    /\ store_op[1].fn = "store_content"
    /\ store_op[1].content = "note 53529"
    /\ kv_store = [k \in {"42f58c3e"} |-> "note 53529"]

\* C17: a Content Store entry is never mutated after it is first inserted.
\* For every key K, once get_content(K) returns a value v it returns v after
\* every later store_content call, until clear_store is called.
C17_NeverMutated ==
    [][(Calling("store_content") \/ Calling("maybe_store_large_content"))
       => \A K \in DOMAIN kv_store :
             get_content(K, kv_store') = get_content(K, kv_store)]_vars

\* A pass of the loop has dispatched the tool_calls of a GatherInformation
\* decision.
Gathered == oracle_calls' = oracle_calls + 1 /\ last_step'.kind = "GatherInformation"

\* The tool-role messages of a memory.
ToolResults(messages) == {m \in Range(messages) : m.role = "tool"}

\* C18: for a FetchUrl request whose fetched text is 6000 characters long, the
\* tool-result message appended to memory contains the first 1800 characters
\* of that text, a truncation notice stating "6000 chars total", and a key
\* under which all 6000 characters are stored in the content store.
C18_LongPage ==
    [][Gathered
       => \A i \in 1..Len(last_step'.requests) :
             LET tool_call == last_step'.requests[i]
                 page == HttpGet(tool_call.url)
             IN (/\ hasattr(tool_call, "url")
                 /\ ~ fetch_failed(tool_call.url)
                 /\ Len(page.text) = PageLength)
                => \E m \in ToolResults(channel_memories'[channel'].messages) :
                      /\ Contains(m.content, SubSeq(page.text, 1, 1800))
                      /\ Contains(m.content, ToString(PageLength) \o " chars total")
                      /\ get_content(EmittedKey(m.content), kv_store')
                            = Some(page.text)]_vars

\* C19: retrievability of truncated output.  After a tool output c longer
\* than MAX_CONTEXT_LENGTH has been truncated with key K, a GatherInformation
\* decision containing GetStoredContent{sha_key: K} makes the loop append a
\* tool-result message that contains all of c.
C19_Retrievable ==
    [][Gathered
       => \A i \in 1..Len(last_step'.requests) :
             LET tool_call == last_step'.requests[i] IN
             (/\ hasattr(tool_call, "sha_key")
              /\ tool_call.sha_key \in DOMAIN kv_store
              /\ Len(kv_store[tool_call.sha_key]) > MAX_CONTEXT_LENGTH)
             => \E m \in ToolResults(channel_memories'[channel'].messages) :
                   /\ Len(m.content) >= Len(kv_store[tool_call.sha_key])
                   /\ Contains(m.content, kv_store[tool_call.sha_key])]_vars

\* C20: failures are routed to the errors list and never to the successes
\* list.  A FetchUrl request that ends in a non-200 status, a timeout, a
\* client error or an unsupported content type produces an error-role
\* message in memory and no tool-role message for that request.
C20_FailuresRouted ==
    [][Gathered
       => \A i \in 1..Len(last_step'.requests) :
             LET tool_call == last_step'.requests[i] IN
             (hasattr(tool_call, "url") /\ fetch_failed(tool_call.url))
             => /\ \E e \in Range(last_step'.errors) :
                      /\ Contains(e, tool_call.url \o " (" \o tool_call.reason \o ")")
                      /\ Message("error", e)
                            \in Range(channel_memories'[channel'].messages)
                /\ \A r \in Range(last_step'.results) :
                      ~ Contains(r, tool_call.url \o " (" \o tool_call.reason \o ")")]_vars

\* The agent-loop invocations in flight for a channel: the tasks that have
\* called an entry point that has not returned yet.
InFlight(channel_id) ==
    {t \in 1..Len(tasks) : tasks[t].channel = channel_id /\ tasks[t].pc = "loop"}

\* C21: per-session serialization by the caller.  Under every interleaving of
\* incoming channel messages and button callbacks handled by the bot, at most
\* one agent-loop invocation is in flight for a given channel id at any time.
C21_OneInFlight ==
    \A c \in GuildChannels : Cardinality(InFlight(c)) <= 1

\* The step is one of the loop: an entry point starts, the oracle answers, or
\* the budget runs out.
LoopStep ==
    \/ invocations' # invocations
    \/ total_steps' # total_steps
    \/ (pc = "running" /\ pc' = "idle")

\* The step is a call of the clear command.
ClearStep == sent' # sent /\ Last(sent').kind = "cleared"

\* The step is made for session b.
StepFor(b) ==
    \/ LoopStep /\ channel' = b
    \/ ClearStep /\ Last(sent').channel = b

\* The log `new` is the log `old` with messages appended and then trimmed to
\* the capacity: what is left of `old` opens `new`.
Extends(old, new, capacity) ==
    \E k \in 0..Len(old) :
        /\ Len(new) >= Len(old) - k
        /\ SubSeq(new, 1, Len(old) - k) = SubSeq(old, k + 1, Len(old))
        /\ (k > 0 => Len(new) = capacity)

C22_Step ==
    \A b \in Sessions :
        /\ ~ StepFor(b) =>
              /\ (b \in DOMAIN channel_memories') = (b \in DOMAIN channel_memories)
              /\ (b \in DOMAIN channel_memories =>
                     channel_memories'[b] = channel_memories[b])
        /\ b \in DOMAIN channel_memories =>
              /\ get_channel_memory(channel_memories, b) = channel_memories
              /\ b \in DOMAIN channel_memories'
              /\ channel_memories'[b].max_messages = channel_memories[b].max_messages
              /\ (~ ClearStep =>
                     Extends(channel_memories[b].messages,
                             channel_memories'[b].messages,
                             channel_memories[b].max_messages))
        /\ b \notin DOMAIN channel_memories =>
              /\ get_channel_memory(channel_memories, b)[b] =
                     ChannelMemory(DEFAULT_MAX_MESSAGES)
              /\ \A c \in DOMAIN channel_memories :
                     get_channel_memory(channel_memories, b)[c] = channel_memories[c]
              /\ (b \in DOMAIN channel_memories' /\ entry' = "run_agent_loop" /\ LoopStep =>
                     \E text \in UserTexts :
                         channel_memories'[b].messages = <<Message("user", text)>>)
        /\ StepFor(b) /\ ClearStep => channel_memories'[b].messages = <<>>

\* C22: session isolation of memory.  A step of an entry point, of the loop or
\* of clear() for one session leaves the log of every other session as it
\* was; a session's memory, once made (empty, on first reference), stays in
\* the registry and is the one get_channel_memory gives back: a later
\* invocation adds to what the log holds and only clear() empties it.
C22_SessionIsolation == [][C22_Step]_vars

\* Both sessions have a memory; session 2 holds messages of an invocation of
\* its own, and session 1, which had run an invocation before, was cleared.
C22_Witness ==
    /\ DOMAIN channel_memories = Sessions
    /\ invocations = 2
    /\ channel = 2
    /\ Len(channel_memories[2].messages) >= 2
    /\ sent # <<>>
    /\ Last(sent).channel = 1
    /\ channel_memories[1].messages = <<>>
    /\ total_steps >= 2

\* The caller changed a list it was handed.
CallerStep ==
    /\ Len(taken') = Len(taken)
    /\ \E s \in 1..Len(taken) :
          taken'[s].touched /\ heap'[taken[s].ref] # heap[taken[s].ref]

\* A list the caller has not changed holds what it held when handed over.
C23_Held ==
    \A s \in 1..Len(taken) : ~ taken[s].touched => heap[taken[s].ref] = taken[s].held

C23_Step == CallerStep => live' = live /\ heap'[live] = heap[live]

\* C23: get_messages() returns a copy, not the live list.  A list taken
\* before later appends, trims or clear() on the memory still holds exactly
\* the messages present when it was taken, and a caller's change of a list it
\* was handed leaves the memory's messages as they were.
C23_ReturnsCopy == [] C23_Held /\ [][C23_Step]_vars

\* A list was taken when the memory was full; the memory was then appended to
\* and trimmed (its messages are a newer list) and cleared, and the list still
\* holds the two messages; another list, taken as well, was changed by its
\* caller.
C23_Witness ==
    \E s, u \in 1..Len(taken) :
        /\ ~ taken[s].touched
        /\ Len(taken[s].held) = AliasCapacity
        /\ heap[taken[s].ref] = taken[s].held
        /\ live > taken[s].ref
        /\ heap[live] = <<>>
        /\ taken[u].touched
        /\ heap[taken[u].ref] # taken[u].held

\* C24: the entry points share one step loop.  From the same memory, against
\* the same decisions of the oracle and the same tool outcomes,
\* run_agent_loop(session, text) leaves the same memory and returns the same
\* AgentResult as appending text as a user message and then running
\* run_agent_loop_internal(session).
C24_SameOutcome ==
    \A a, b \in 1..Len(outcomes) :
        /\ outcomes[a].memory = outcomes[b].memory
        /\ outcomes[a].result = outcomes[b].result
        /\ outcomes[a].store = outcomes[b].store
        /\ outcomes[a].fs = outcomes[b].fs

\* The text is labelled with the reason of a request.
Labelled(text, reason) ==
    \/ Contains(text, "(" \o reason \o ")")
    \/ Contains(text, "(" \o reason \o ", ")

\* The messages of the batch just dispatched that the memory holds: the
\* last ones, as many as the batch had outcomes.
BatchMessages ==
    LastN(channel_memories'[channel].messages,
          Min(Len(channel_memories'[channel].messages),
              Len(last_step'.results) + Len(last_step'.errors)))

\* Where the character c first is in the text at or after place i, or 0.
RECURSIVE FirstAt(_, _, _)
FirstAt(text, c, i) ==
    IF i > Len(text) THEN 0
    ELSE IF SubSeq(text, i, i) \in c THEN i
    ELSE FirstAt(text, c, i + 1)

\* The reason a result or an error is labelled with: what stands between its
\* first "(" and the ")" or "," that follows.  The reasons of the batches hold
\* none of these characters.
LabelBetween(text, open, close) ==
    IF open = 0 \/ close = 0 THEN "" ELSE SubSeq(text, open + 1, close - 1)

LabelOf(text) ==
    LET open == FirstAt(text, {"("}, 1) IN
    LabelBetween(text, open, FirstAt(text, {")", ","}, open + 1))

LabelsOf(texts) == [k \in 1..Len(texts) |-> LabelOf(texts[k])]

Contents(messages) == [k \in 1..Len(messages) |-> messages[k].content]

\* Per request of a batch, where among the labels its reason is.
PlacesOf(labels, requests) ==
    [i \in 1..Len(requests) |-> {k \in 1..Len(labels) : labels[k] = requests[i].reason}]

C25_Step ==
    Gathered =>
        \A messages \in {BatchMessages} :
        \A labels \in {LabelsOf(Contents(messages))} :
        \A places \in {PlacesOf(labels, last_step'.requests)} :
           \A i, j \in 1..Len(last_step'.requests) :
              i < j => \A k \in places[i], l \in places[j] : k < l

C25_AmendedStep ==
    Gathered =>
        \A messages \in {BatchMessages} :
        \A labels \in {LabelsOf(Contents(messages))} :
        \A places \in {PlacesOf(labels, last_step'.requests)} :
           \A i, j \in 1..Len(last_step'.requests) :
              i < j => \A k \in places[i], l \in places[j] :
                          IF messages[k].role = messages[l].role THEN k < l
                          ELSE (k < l) = (messages[k].role = "tool")

RequestOf(label, requests) ==
    CHOOSE i \in 1..Len(requests) : requests[i].reason = label

\* The outcomes are in the order of their requests.
InRequestOrder(texts, requests) ==
    \A labels \in {LabelsOf(texts)} :
    \A of \in {[a \in 1..Len(texts) |-> RequestOf(labels[a], requests)]} :
    \A a, b \in 1..Len(texts) : a < b => of[a] < of[b]

C26_Step ==
    Gathered /\ last_step'.requests # <<>> =>
        /\ channel_memories'[channel].messages =
               Kept(Memory.messages \o ToolMessages(last_step'.results)
                        \o ErrorMessages(last_step'.errors),
                    DEFAULT_MAX_MESSAGES)
        /\ InRequestOrder(last_step'.results, last_step'.requests)
        /\ InRequestOrder(last_step'.errors, last_step'.requests)
        /\ Len(last_step'.results) + Len(last_step'.errors) = Len(last_step'.requests)

\* C26: within one dispatched batch, all tool-role messages of the batch are
\* appended before any error-role message of the batch, and inside each group
\* the messages keep the order of their requests.
C26_SuccessesThenErrors == [][C26_Step]_vars

\* The second batch of an invocation left four tool messages and then an
\* error message behind those of the first.
C26_Witness ==
    /\ pc = "running"
    /\ oracle_calls = 2
    /\ last_step.kind = "GatherInformation"
    /\ Len(last_step.results) = 4
    /\ Len(last_step.errors) = 1
    /\ Len(Memory.messages) = Len(prior) + 11
    /\ LastN(Memory.messages, 5) =
           ToolMessages(last_step.results) \o ErrorMessages(last_step.errors)

C29_Step ==
    Gathered /\ last_step'.requests = <<>> =>
        /\ channel_memories'[channel].messages =
               Kept(Append(Memory.messages, Message("tool", NoToolsMessage)),
                    DEFAULT_MAX_MESSAGES)
        /\ NoToolsMessage = "No tools were called. Please provide a response."
        /\ pc' = "running"
        /\ iteration' = iteration + 1
        /\ result' = None
        /\ capabilities' = capabilities
        /\ kv_store' = kv_store
        /\ files' = files

\* C29: a GatherInformation decision with empty tool_calls appends exactly one
\* tool-role message "No tools were called. Please provide a response." and
\* the loop goes on to the next iteration without invoking any tool.
C29_EmptyBatch == [][C29_Step]_vars

\* The oracle has twice in a row asked for no tool: the memory ends with the
\* fixed message twice and the loop is in its third pass.
C29_Witness ==
    /\ pc = "running"
    /\ iteration = 2
    /\ last_step.kind = "GatherInformation"
    /\ last_step.requests = <<>>
    /\ LastN(Memory.messages, 2) =
           <<Message("tool", NoToolsMessage), Message("tool", NoToolsMessage)>>

\* run_agent_loop has returned the FinalAnswer the oracle gave right after a
\* GatherInformation with the single FetchUrl request, on a memory with room
\* for the messages.
LookedUpThenAnswered ==
    /\ Returned
    /\ entry = "run_agent_loop"
    /\ Len(history) = 3
    /\ history[2].kind = "GatherInformation"
    /\ history[2].requests = LookupBatch
    /\ history[3].kind = "FinalAnswer"
    /\ Len(prior) + 4 <= DEFAULT_MAX_MESSAGES

OutputLength(text) == Len(text) - (FirstAt(text, {")"}, 1) + 2)

\* C27: the oversized-content policy is imposed on every successful tool
\* output in both dispatch modes.  For every tool variant a success string
\* carries at most MAX_CONTEXT_LENGTH characters of tool output after its
\* label, longer output being replaced by the 1800-character preview and the
\* stored-key notice.
C27_PolicyEverywhere ==
    dispatched # None =>
        \A r \in 1..Len(dispatched[1].results) :
            OutputLength(dispatched[1].results[r]) <= MAX_CONTEXT_LENGTH

\* The tool function that corresponds to the variant of a request.
CapabilityOf(tool_call) ==
    CASE VariantOf(tool_call) = "FetchUrl" -> "fetch_url"
      [] VariantOf(tool_call) = "TavilySearch" -> "tavily_search"
      [] VariantOf(tool_call) = "GetStoredContent" -> "get_stored_content"
      [] VariantOf(tool_call) = "GetOllamaModels" -> "get_ollama_models"
      [] VariantOf(tool_call) = "ReadFile" -> "read_file"
      [] VariantOf(tool_call) = "WriteFile" -> "write_file"
      [] VariantOf(tool_call) = "Bash" -> "execute_bash"

\* C28: each request is handled by the capability of its own variant.  For
\* every request in a batch given to execute_tool_calls or
\* execute_action_tools, the capability invoked is the one that corresponds
\* to the request's variant, and never the capability of a different variant.
C28_OwnCapability ==
    dispatched # None =>
        \A k \in 1..Len(dispatched[1].calls) :
            dispatched[1].calls[k].fn = CapabilityOf(batch[dispatched[1].calls[k].request])

\* C31: the user clear command empties the session log.  When a user sends
\* the clear command ("!clear") in a channel the bot listens to, that
\* channel's conversation memory becomes empty and the command text is not
\* passed to the agent loop as a user message.
C31_ClearCommand ==
    /\ \A t \in 1..Len(tasks) :
          tasks[t].handler = "on_message" => tasks[t].choice # ClearCommand
    /\ \A c \in DOMAIN channel_memories :
          \A i \in 1..Len(channel_memories[c].messages) :
              channel_memories[c].messages[i] # Message("user", ClearCommand)

\* The tasks whose result handle_agent_result has handled.
Handled == {t \in 1..Len(tasks) : tasks[t].pc = "done"}

\* C35: every result reaches the user.  For every AgentResult the loop can
\* return, including a FinalAnswer whose response is the empty string,
\* handle_agent_result sends exactly one message to the channel.
C35_EveryResultSent == Len(sent) = Cardinality(Handled)

\* The calls of continue_after_tool_approval made for the action of a view.
Resumptions(v) ==
    {t \in 1..Len(tasks) : /\ tasks[t].handler = "ApprovalButton.callback"
                           /\ tasks[t].view = v
                           /\ tasks[t].pc # "callback"}

\* C32: at-most-once resumption of a pending action.  For each PerformAction
\* the bot shows for approval, under every interleaving of Approve and Deny
\* button clicks at most one continue_after_tool_approval call is made, so
\* the action's tool_calls are executed at most once and never after a denial
\* of the same action.
C32_AtMostOnce ==
    \A v \in 1..Len(views) :
        views[v].kind = "approval" => Cardinality(Resumptions(v)) <= 1

\* C33: the user's request stays visible to the oracle.  In every
\* invocation, every snapshot passed to the oracle contains the user message
\* that started that invocation (the text given to run_agent_loop, or the
\* "I choose: ..." message), whatever number of tool results and errors
\* earlier iterations appended.
C33_RequestVisible ==
    oracle_calls >= 1 =>
        /\ entry = "run_agent_loop" =>
              \E text \in UserTexts : Message("user", text) \in Range(snapshot)
        /\ entry = "continue_after_user_choice" =>
              \E choice \in Choices :
                  Message("user", "I choose: " \o choice) \in Range(snapshot)

\* The request is a FetchUrl whose HTTP response has status 200 and a text
\* or JSON content type.
FetchSucceeds(tool_call) ==
    VariantOf(tool_call) = "FetchUrl" /\ ~ fetch_failed(tool_call.url)

\* C36: a successful fetch is never reported as a failure.  A FetchUrl
\* request whose HTTP response has status 200 and a text or JSON content type
\* produces a tool-role message and no error-role message, for every possible
\* page text.
C36_SuccessNotFailure ==
    (dispatched # None /\ \A i \in 1..Len(batch) : FetchSucceeds(batch[i])) =>
        /\ dispatched[1].errors = <<>>
        /\ Len(dispatched[1].results) = Len(batch)

\* A dispatch of the session got content back from the content store.
RetrievedIn(b) ==
    \E i \in 1..Len(channel_memories[b].messages) :
        /\ channel_memories[b].messages[i].role = "tool"
        /\ StartsWith(channel_memories[b].messages[i].content,
                      "Retrieved stored content (")

\* A dispatch of the session fetched the long page, whose text it stored.
StoredIn(b) ==
    \E i \in 1..Len(channel_memories[b].messages) :
        /\ channel_memories[b].messages[i].role = "tool"
        /\ StartsWith(channel_memories[b].messages[i].content,
                      "Fetched http://example.com/big.txt (")

\* C37: no cross-session flow through the content store.  A GetStoredContent
\* request dispatched in session B returns content only if that content was
\* stored by a dispatch that ran in session B, so what session A's tools
\* returned does not show in the memory of session B.
C37_NoCrossSessionFlow ==
    \A b \in DOMAIN channel_memories : RetrievedIn(b) => StoredIn(b)

\* C34: every pass of the while loop of query_agent_interactive prompts the
\* user for input or leaves the loop, whichever kind of result it is given.
C34_Progress ==
    [][(cli # None /\ cli' # None /\ cli'.passes = cli.passes + 1)
       => (cli'.prompts > cli.prompts \/ cli'.at = "exited")]_vars

====
